---- MODULE Spec2Model ----
(***************************************************************************)
(* MockWebSocketsServer (masq_lib/src/test_utils/mock_websockets_server.rs) *)
(* as a state machine: the builder, the background worker thread with its   *)
(* handshake and receive/dispatch loop, the broadcast-flush walk, and the   *)
(* stop handle.  The test thread (builder, start, stop/kill), the worker    *)
(* thread and the client are separate processes of the model.               *)
(* PrivilegeDropperReal::drop_privileges (node/src/privilege_drop.rs) is    *)
(* modelled beside it as a function of the id wrapper's results.            *)
(***************************************************************************)
EXTENDS Integers, Sequences, FiniteSets, TLC

\* ------------------------------------------------------------------ bounds

\* Spec: longest response queue the builder configures.
MaxQueue == 2
\* Spec: number of frames the client sends during one run.
MaxRequests == 2
\* SpecWorker: longest response queue the worker starts its loop with.
WMaxQueue == 3
\* Frames the client may have in flight (sent, not yet read by the worker).
MaxInflight == 1
\* SpecLife: longest response queue the server is started with.
LMaxQueue == 2
\* SpecLife: number of frames the client sends.
LMaxRequests == 2
\* SpecDialogue: longest response queue the worker starts its loop with.
DMaxQueue == 3
\* SpecDialogue: number of frames the client sends.
DMaxRequests == 2
\* SpecClassify: longest response queue the worker starts its loop with.
CMaxQueue == 3

\* -------------------------------------------------------------- data model

\* Option<usize> is a set with at most one element: {} is None, {v} is Some(v).
\* Payload of a message envelope.  kind "trigger" is a well-formed
\* UiBroadcastTrigger, "malformed" one that UiBroadcastTrigger::fmb rejects,
\* "plain" any other payload object, "error" an error object.  quotesCtx says
\* that the payload text holds the characters "contextId" (quotes included).
\* message is the text a UiUnmarshalError carries, <<>> in every other payload.
Payload(kind, batch, pos, quotesCtx) ==
    [kind |-> kind, batch |-> batch, pos |-> pos, quotesCtx |-> quotesCtx,
     message |-> <<>>]

NoPayload == Payload("none", {}, {}, FALSE)

PlainPayload == Payload("plain", {}, {}, FALSE)

\* The text of a frame: either a string that is no JSON object (raw # ""), or
\* a JSON object given by its member keys in textual order and the values of
\* the members the protocol reads.
RawText(s) ==
    [raw |-> s, keys |-> <<>>, opcode |-> "", ctx |-> 0, payload |-> NoPayload]

JsonText(keys, opcode, ctx, payload) ==
    [raw |-> "", keys |-> keys, opcode |-> opcode, ctx |-> ctx, payload |-> payload]

HasKey(t, k) == \E j \in 1..Len(t.keys) : t.keys[j] = k

\* websocket::OwnedMessage
TextFrame(t) == [type |-> "Text", text |-> t, bytes |-> <<>>]

BinaryFrame(b) == [type |-> "Binary", text |-> RawText(""), bytes |-> b]

CloseFrame == [type |-> "Close", text |-> RawText(""), bytes |-> <<>>]

\* ui_gateway::MessageBody with its MessagePath
MessageBody(opcode, path, ctx, payload) ==
    [opcode |-> opcode, path |-> path, ctx |-> ctx, payload |-> payload]

NoBody == MessageBody("", "FireAndForget", 0, NoPayload)

ConversationBody(opcode, ctx) == MessageBody(opcode, "Conversation", ctx, PlainPayload)

BroadcastBody(opcode) == MessageBody(opcode, "FireAndForget", 0, PlainPayload)

TriggerBody(batch, pos) ==
    MessageBody("broadcastTrigger", "FireAndForget", 0, Payload("trigger", batch, pos, FALSE))

\* UiTrafficConverter::new_marshal: the envelope as text, opcode first, the
\* context id only for a conversation.
new_marshal(body) ==
    LET last == IF body.payload.kind = "error" THEN "error" ELSE "payload"
    IN  IF body.path = "Conversation"
        THEN JsonText(<<"opcode", "contextId", last>>, body.opcode, body.ctx, body.payload)
        ELSE JsonText(<<"opcode", last>>, body.opcode, 0, body.payload)

\* UiTrafficConverter::new_unmarshal_from_ui: a text decodes when it is a JSON
\* object with a string opcode and a payload or error member; the path is a
\* conversation exactly when it has a contextId member.
new_unmarshal_from_ui(t) ==
    IF /\ t.raw = ""
       /\ HasKey(t, "opcode")
       /\ t.opcode # ""
       /\ (HasKey(t, "payload") \/ HasKey(t, "error"))
    THEN [ok |-> TRUE,
          body |-> MessageBody(t.opcode,
                               IF HasKey(t, "contextId") THEN "Conversation"
                                                         ELSE "FireAndForget",
                               IF HasKey(t, "contextId") THEN t.ctx ELSE 0,
                               t.payload)]
    ELSE [ok |-> FALSE, body |-> NoBody]

\* UiBroadcastTrigger::fmb
UiBroadcastTrigger_fmb(body) ==
    IF body.opcode = "broadcastTrigger" /\ body.payload.kind = "trigger"
    THEN [ok |-> TRUE, number_of_broadcasts_in_one_batch |-> body.payload.batch,
          position_to_send_the_signal_opt |-> body.payload.pos]
    ELSE [ok |-> FALSE, number_of_broadcasts_in_one_batch |-> {},
          position_to_send_the_signal_opt |-> {}]

\* outgoing.contains("\"contextId\"")
contains_contextId(t) == HasKey(t, "contextId") \/ t.payload.quotesCtx

\* outgoing.starts_with("{\"opcode\":")
starts_with_opcode(t) == Len(t.keys) > 0 /\ t.keys[1] = "opcode"

\* Result<MessageBody, String>, an entry of the request log
OkEntry(body) == [ok |-> TRUE, body |-> body, err |-> RawText("")]

ErrEntry(t) == [ok |-> FALSE, body |-> NoBody, err |-> t]

\* format!("{:?}", x) of a frame that is no text
DebugText(frame) ==
    IF frame.type = "Binary" THEN RawText("Binary(..)") ELSE RawText("Close(None)")

\* The reply sent for an empty queue: OwnedMessage::Binary(vec![101])
SentinelByte == 101

SentinelFrame == BinaryFrame(<<SentinelByte>>)

\* The envelope sent when a conversational request meets a queued
\* fire-and-forget message.
FireAndForgetErrorText(opcode, context_id) ==
    JsonText(<<"opcode", "contextId", "error">>, opcode, context_id,
             Payload("error", {}, {}, FALSE))

\* UiUnmarshalError{message: bad_message, ..}.tmb(0) marshalled
UnmarshalErrorText(bad_message) ==
    new_marshal(MessageBody("unmarshalError", "FireAndForget", 0,
                            [PlainPayload EXCEPT !.message = <<bad_message>>]))

\* ------------------------------------------------------- the pure handlers

\* What client.recv_message() hands to handle_incoming_raw.
Incoming(kind, frame) == [kind |-> kind, frame |-> frame]

NoEntry == [some |-> FALSE, entry |-> ErrEntry(RawText(""))]

SomeEntry(e) == [some |-> TRUE, entry |-> e]

\* Mutant: a read that would block is recorded as an error.
handle_incoming_raw_logs_would_block(incoming) ==
    IF incoming.kind = "NoDataAvailable" THEN NoEntry
    ELSE IF incoming.kind \in {"WouldBlock", "IoError"}
    THEN SomeEntry(ErrEntry(RawText("Error serving WebSocket")))
    ELSE IF incoming.frame.type = "Text"
    THEN LET msg == new_unmarshal_from_ui(incoming.frame.text)
         IN  IF msg.ok THEN SomeEntry(OkEntry(msg.body))
                       ELSE SomeEntry(ErrEntry(incoming.frame.text))
    ELSE SomeEntry(ErrEntry(DebugText(incoming.frame)))

\* handle_incoming_raw: Option<Result<MessageBody, String>>
handle_incoming_raw(incoming) ==
    IF incoming.kind = "NoDataAvailable" THEN NoEntry
    ELSE IF incoming.kind = "WouldBlock" THEN NoEntry
    ELSE IF incoming.kind = "IoError"
    THEN SomeEntry(ErrEntry(RawText("Error serving WebSocket")))
    ELSE IF incoming.frame.type = "Text"
    THEN LET msg == new_unmarshal_from_ui(incoming.frame.text)
         IN  IF msg.ok THEN SomeEntry(OkEntry(msg.body))
                       ELSE SomeEntry(ErrEntry(incoming.frame.text))
    ELSE SomeEntry(ErrEntry(DebugText(incoming.frame)))

\* The effect of one handler on the worker: the queue it leaves, the frames it
\* hands to client.send_message in order, and how the loop goes on
\* ("continue", "break" or "panic").
Effect(queue, out, flow) == [queue |-> queue, out |-> out, flow |-> flow]

\* Mutant: a queued fire-and-forget message met by a conversational request is
\* not put back into the queue.
text_reply_consumes_broadcast(om, rest, message_body, context_id) ==
    IF om.text = RawText("disconnect")
    THEN Effect(rest, <<>>, "break")
    ELSE IF om.text = RawText("close")
    THEN Effect(rest, <<CloseFrame>>, "continue")
    ELSE IF contains_contextId(om.text)
    THEN Effect(rest, <<TextFrame(om.text)>>, "continue")
    ELSE IF starts_with_opcode(om.text)
    THEN Effect(rest,
                <<TextFrame(FireAndForgetErrorText(message_body.opcode, context_id))>>,
                "continue")
    ELSE Effect(rest, <<TextFrame(om.text)>>, "continue")

\* Mutant: the "close" directive ends the loop as "disconnect" does.
text_reply_close_ends_loop(om, rest, message_body, context_id) ==
    IF om.text = RawText("disconnect")
    THEN Effect(rest, <<>>, "break")
    ELSE IF om.text = RawText("close")
    THEN Effect(rest, <<CloseFrame>>, "break")
    ELSE IF contains_contextId(om.text)
    THEN Effect(rest, <<TextFrame(om.text)>>, "continue")
    ELSE IF starts_with_opcode(om.text)
    THEN Effect(<<TextFrame(om.text)>> \o rest,
                <<TextFrame(FireAndForgetErrorText(message_body.opcode, context_id))>>,
                "continue")
    ELSE Effect(rest, <<TextFrame(om.text)>>, "continue")

\* Mutant: a queued fire-and-forget message met by a conversational request is
\* put back at the end of the queue.
text_reply_puts_back_last(om, rest, message_body, context_id) ==
    IF om.text = RawText("disconnect")
    THEN Effect(rest, <<>>, "break")
    ELSE IF om.text = RawText("close")
    THEN Effect(rest, <<CloseFrame>>, "continue")
    ELSE IF contains_contextId(om.text)
    THEN Effect(rest, <<TextFrame(om.text)>>, "continue")
    ELSE IF starts_with_opcode(om.text)
    THEN Effect(rest \o <<TextFrame(om.text)>>,
                <<TextFrame(FireAndForgetErrorText(message_body.opcode, context_id))>>,
                "continue")
    ELSE Effect(rest, <<TextFrame(om.text)>>, "continue")

\* The Text arm of the match on the popped frame: the directives, the
\* conversational marker, the fire-and-forget shape and the rest.
text_reply(om, rest, message_body, context_id) ==
    IF om.text = RawText("disconnect")
    THEN Effect(rest, <<>>, "break")
    ELSE IF om.text = RawText("close")
    THEN Effect(rest, <<CloseFrame>>, "continue")
    ELSE IF contains_contextId(om.text)
    THEN Effect(rest, <<TextFrame(om.text)>>, "continue")
    ELSE IF starts_with_opcode(om.text)
    THEN Effect(<<TextFrame(om.text)>> \o rest,
                <<TextFrame(FireAndForgetErrorText(message_body.opcode, context_id))>>,
                "continue")
    ELSE Effect(rest, <<TextFrame(om.text)>>, "continue")

\* Mutant: a frame that is no text is sent as the text of its debug form.
conversational_reply_formats_raw(om, rest, message_body, context_id) ==
    IF om.type = "Text"
    THEN text_reply(om, rest, message_body, context_id)
    ELSE Effect(rest, <<TextFrame(DebugText(om))>>, "continue")

\* The match on the frame removed from the queue.
conversational_reply(om, rest, message_body, context_id) ==
    IF om.type = "Text"
    THEN text_reply(om, rest, message_body, context_id)
    ELSE Effect(rest, <<om>>, "continue")

\* Mutant: the response is taken from the back of the queue.
handle_conversational_lifo(queue, message_body, context_id) ==
    IF Len(queue) # 0
    THEN conversational_reply(queue[Len(queue)], SubSeq(queue, 1, Len(queue) - 1),
                              message_body, context_id)
    ELSE Effect(queue, <<SentinelFrame>>, "continue")

\* Mutant: an empty queue is answered with an error envelope.
handle_conversational_empty_envelope(queue, message_body, context_id) ==
    IF Len(queue) # 0
    THEN conversational_reply(Head(queue), Tail(queue), message_body, context_id)
    ELSE Effect(queue,
                <<TextFrame(FireAndForgetErrorText(message_body.opcode, context_id))>>,
                "continue")

\* handle_conversational_incoming_message; a return value of 1 is flow "break".
handle_conversational_incoming_message(queue, message_body, context_id) ==
    IF Len(queue) # 0
    THEN conversational_reply(Head(queue), Tail(queue), message_body, context_id)
    ELSE Effect(queue, <<SentinelFrame>>, "continue")

\* Mutant: the error envelope does not carry the text that failed to decode.
handle_unrecognized_drops_text(queue, incoming) ==
    IF new_unmarshal_from_ui(incoming.err).ok
    THEN Effect(queue, <<>>, "panic")
    ELSE Effect(queue, <<TextFrame(UnmarshalErrorText(RawText("")))>>, "continue")

\* handle_unrecognized_owned_message
handle_unrecognized_owned_message(queue, incoming) ==
    IF new_unmarshal_from_ui(incoming.err).ok
    THEN Effect(queue, <<>>, "panic")
    ELSE Effect(queue, <<TextFrame(UnmarshalErrorText(incoming.err))>>, "continue")

\* The locals of handle_broadcast_trigger.  phase is "none" before the first
\* trigger, "active" during the walk and "finished" after it; q0, wire0 and
\* signals0 record the queue, the number of frames sent and the number of
\* signals delivered when the trigger arrived.
Walk(phase, i, factor, sent, batch, pos, sender, start, q0, wire0, signals0) ==
    [phase |-> phase, i |-> i, factor_of_position_reduction |-> factor,
     already_sent |-> sent, batch_size |-> batch, position |-> pos,
     signal_sender_opt |-> sender, starting_lenght |-> start,
     q0 |-> q0, wire0 |-> wire0, signals0 |-> signals0]

NoWalk == Walk("none", 0, 0, 0, 0, {}, FALSE, 0, <<>>, 0, 0)

\* Mutant: a sender without a position, or a position without a sender, is
\* taken as a trigger without a signal.
handle_broadcast_trigger_resolve_lenient(message_body, sender, queue) ==
    LET fmb == UiBroadcastTrigger_fmb(message_body)
        position == fmb.position_to_send_the_signal_opt
        batch == IF fmb.number_of_broadcasts_in_one_batch = {}
                 THEN Len(queue)
                 ELSE CHOOSE b \in fmb.number_of_broadcasts_in_one_batch : TRUE
    IN  IF ~fmb.ok THEN [panic |-> TRUE, position |-> {}, sender |-> FALSE, batch |-> 0]
        ELSE IF sender /\ position # {}
        THEN [panic |-> FALSE, position |-> position, sender |-> TRUE, batch |-> batch]
        ELSE [panic |-> FALSE, position |-> {}, sender |-> FALSE, batch |-> batch]

\* The tuple handle_broadcast_trigger resolves from the trigger and the
\* server's sender before the walk, or a panic.
handle_broadcast_trigger_resolve(message_body, sender, queue) ==
    LET fmb == UiBroadcastTrigger_fmb(message_body)
        position == fmb.position_to_send_the_signal_opt
        batch == IF fmb.number_of_broadcasts_in_one_batch = {}
                 THEN Len(queue)
                 ELSE CHOOSE b \in fmb.number_of_broadcasts_in_one_batch : TRUE
    IN  IF ~fmb.ok THEN [panic |-> TRUE, position |-> {}, sender |-> FALSE, batch |-> 0]
        ELSE IF sender
        THEN IF position # {}
             THEN [panic |-> FALSE, position |-> position, sender |-> TRUE, batch |-> batch]
             ELSE [panic |-> TRUE, position |-> {}, sender |-> FALSE, batch |-> 0]
        ELSE IF position # {}
             THEN [panic |-> TRUE, position |-> {}, sender |-> FALSE, batch |-> 0]
             ELSE [panic |-> FALSE, position |-> {}, sender |-> FALSE, batch |-> batch]

\* Mutant: the walk does not stop at a conversational frame.
handle_broadcast_trigger_step_jumps(queue, w) ==
    LET idx == w.i - w.factor_of_position_reduction
        om == queue[idx + 1]
        msg == new_unmarshal_from_ui(om.text)
        sent == w.already_sent + 1
    IN  IF idx >= 0 /\ idx < Len(queue) /\ om.type = "Text" /\ msg.ok
           /\ msg.body.path = "FireAndForget"
        THEN [queue |-> Tail(queue), out |-> <<Head(queue)>>, already_sent |-> sent,
              factor_of_position_reduction |->
                  IF sent = w.batch_size THEN w.factor_of_position_reduction
                  ELSE w.factor_of_position_reduction + 1,
              brk |-> sent = w.batch_size, panic |-> FALSE]
        ELSE [queue |-> queue, out |-> <<>>, already_sent |-> w.already_sent,
              factor_of_position_reduction |-> w.factor_of_position_reduction,
              brk |-> FALSE, panic |-> idx < 0 \/ idx >= Len(queue)]

\* Mutant: every queued text that decodes is released, a conversational one too.
handle_broadcast_trigger_step_releases_all(queue, w) ==
    LET idx == w.i - w.factor_of_position_reduction
        om == queue[idx + 1]
        msg == new_unmarshal_from_ui(om.text)
        sent == w.already_sent + 1
    IN  IF idx >= 0 /\ idx < Len(queue) /\ om.type = "Text" /\ msg.ok
        THEN [queue |-> Tail(queue), out |-> <<Head(queue)>>, already_sent |-> sent,
              factor_of_position_reduction |->
                  IF sent = w.batch_size THEN w.factor_of_position_reduction
                  ELSE w.factor_of_position_reduction + 1,
              brk |-> sent = w.batch_size, panic |-> FALSE]
        ELSE [queue |-> queue, out |-> <<>>, already_sent |-> w.already_sent,
              factor_of_position_reduction |-> w.factor_of_position_reduction,
              brk |-> FALSE, panic |-> idx < 0 \/ idx >= Len(queue)]

\* Mutant: the count subtracted from the index is not raised after a removal.
handle_broadcast_trigger_step_keeps_index(queue, w) ==
    LET idx == w.i - w.factor_of_position_reduction
        om == queue[idx + 1]
        msg == new_unmarshal_from_ui(om.text)
        sent == w.already_sent + 1
        inside == idx >= 0 /\ idx < Len(queue)
    IN  IF inside /\ om.type = "Text" /\ msg.ok /\ msg.body.path = "FireAndForget"
        THEN [queue |-> Tail(queue), out |-> <<Head(queue)>>, already_sent |-> sent,
              factor_of_position_reduction |-> w.factor_of_position_reduction,
              brk |-> sent = w.batch_size, panic |-> FALSE]
        ELSE [queue |-> queue, out |-> <<>>, already_sent |-> w.already_sent,
              factor_of_position_reduction |-> w.factor_of_position_reduction,
              brk |-> inside /\ om.type = "Text" /\ msg.ok, panic |-> ~inside]

\* One iteration of the for loop of handle_broadcast_trigger, after the signal:
\* the queue it leaves, the frame it sends, the counters, and whether it
\* breaks out of the loop.  An index outside the queue panics.
StepResult(queue, out, sent, factor, brk, panic) ==
    [queue |-> queue, out |-> out, already_sent |-> sent,
     factor_of_position_reduction |-> factor, brk |-> brk, panic |-> panic]

handle_broadcast_trigger_step(queue, w) ==
    LET idx == w.i - w.factor_of_position_reduction
        same == StepResult(queue, <<>>, w.already_sent,
                           w.factor_of_position_reduction, FALSE, FALSE)
    IN  IF idx < 0 \/ idx >= Len(queue)
        THEN [same EXCEPT !.panic = TRUE]
        ELSE LET om == queue[idx + 1]
                 msg == new_unmarshal_from_ui(om.text)
             IN  IF om.type = "Text" /\ msg.ok
                 THEN IF msg.body.path = "FireAndForget"
                      THEN LET sent == w.already_sent + 1
                           IN  StepResult(Tail(queue), <<Head(queue)>>, sent,
                                          IF sent = w.batch_size
                                          THEN w.factor_of_position_reduction
                                          ELSE w.factor_of_position_reduction + 1,
                                          sent = w.batch_size, FALSE)
                      ELSE [same EXCEPT !.brk = TRUE]
                 ELSE same

\* Mutant: no Close frame is sent for a stop order.
termination_check_never_closes(stop_channel) ==
    IF stop_channel # <<>>
    THEN [flow |-> "break", out |-> <<>>, channel |-> Tail(stop_channel)]
    ELSE [flow |-> "continue", out |-> <<>>, channel |-> stop_channel]

\* Mutant: a Close frame is sent for a kill order too.
termination_check_always_closes(stop_channel) ==
    IF stop_channel # <<>>
    THEN [flow |-> "break", out |-> <<CloseFrame>>, channel |-> Tail(stop_channel)]
    ELSE [flow |-> "continue", out |-> <<>>, channel |-> stop_channel]

\* Mutant: an order on the channel is left there and the loop goes on.
termination_check_defers_order(stop_channel) ==
    [flow |-> "continue", out |-> <<>>, channel |-> stop_channel]

\* The termination check at the end of a loop iteration: stop_rx.try_recv().
\* An order on the channel ends the loop; a stop order sends Close first.
termination_check(stop_channel) ==
    IF stop_channel # <<>>
    THEN [flow |-> "break", out |-> IF Head(stop_channel) THEN <<>> ELSE <<CloseFrame>>,
          channel |-> Tail(stop_channel)]
    ELSE [flow |-> "continue", out |-> <<>>, channel |-> stop_channel]

\* ------------------------------------------------- PrivilegeDropperReal

\* One call on the IdWrapper: the function, its argument ({} for none) and
\* what it returned.
IdCall(fn, arg, result) == [fn |-> fn, arg |-> arg, result |-> result]

\* Mutant: the id is not read again after a set call that returned 0.
drop_id_without_recheck(getfn, setfn, target, gets, sets) ==
    LET c1 == IdCall(getfn, {}, gets[1])
        c2 == IdCall(setfn, target, sets[1])
    IN  IF gets[1] # 0 THEN [panic |-> FALSE, calls |-> <<c1>>]
        ELSE IF target = {} THEN [panic |-> TRUE, calls |-> <<c1>>]
        ELSE [panic |-> sets[1] # 0, calls |-> <<c1, c2>>]

\* One of the two blocks of drop_privileges: the id is read; when it is 0 the
\* real user's id is set (a real user without that id panics), a result other
\* than 0 panics, and the id is read again and panics when it is still 0.
\* gets and sets are the results the wrapper gives, call by call.
drop_id(getfn, setfn, target, gets, sets) ==
    LET c1 == IdCall(getfn, {}, gets[1])
        c2 == IdCall(setfn, target, sets[1])
        c3 == IdCall(getfn, {}, gets[2])
    IN  IF gets[1] # 0 THEN [panic |-> FALSE, calls |-> <<c1>>]
        ELSE IF target = {} THEN [panic |-> TRUE, calls |-> <<c1>>]
        ELSE IF sets[1] # 0 THEN [panic |-> TRUE, calls |-> <<c1, c2>>]
        ELSE [panic |-> gets[2] = 0, calls |-> <<c1, c2, c3>>]

\* Mutant: the user id is handled before the group id.
drop_privileges_user_first(user, wrapper) ==
    LET u == drop_id("getuid", "setuid", user.uid,
                     wrapper.getuid_results, wrapper.setuid_results)
        g == drop_id("getgid", "setgid", user.gid,
                     wrapper.getgid_results, wrapper.setgid_results)
    IN  IF u.panic THEN [panic |-> TRUE, calls |-> u.calls]
        ELSE [panic |-> g.panic, calls |-> u.calls \o g.calls]

\* drop_privileges (not Windows): the group block, then the user block; a
\* panic in the group block ends the call.
drop_privileges(user, wrapper) ==
    LET g == drop_id("getgid", "setgid", user.gid,
                     wrapper.getgid_results, wrapper.setgid_results)
        u == drop_id("getuid", "setuid", user.uid,
                     wrapper.getuid_results, wrapper.setuid_results)
    IN  IF g.panic THEN [panic |-> TRUE, calls |-> g.calls]
        ELSE [panic |-> u.panic, calls |-> g.calls \o u.calls]

\* ------------------------------------------------------------------ state

VARIABLES
    cpc,            \* the test thread: "config", "starting", "holding",
                    \* "joining", "leaking", "returned" (after the
                    \* join), "leaked" (without it), "aborted"
    wpc,            \* the worker thread: "none", "spawned", "accept",
                    \* "upgraded", "recv", "walk", "check", "done",
                    \* "returned", "panicked"
    order,          \* the call made on the stop handle: "none", "stop", "kill"
    responses,      \* responses_arc: the queue of OwnedMessage
    signal_sender,  \* signal_sender: TRUE is Some(sender)
    requests,       \* requests_arc: the request log
    result,         \* what stop()/kill() returned
    ready_ch,       \* messages on the ready channel
    looping_ch,     \* messages on the looping channel
    stop_ch,        \* the termination channel: TRUE is a kill order
    conn,           \* the client: "none", "ok" (offers the protocol), "bad"
    transport,      \* the connection: "open" or "broken"
    inbox,          \* frames the client sent that the worker has not read
    wire,           \* frames the worker sent to the client, in order
    signals,        \* signals delivered on the synchronization channel
    signal_rx,      \* the test still holds the receiver of that channel
    walk,           \* the locals of handle_broadcast_trigger
    incoming_opt,   \* incoming_opt of the current loop iteration is Some(..);
                    \* FALSE between iterations
    configured,     \* history: the response queue as it was at start()
    sent,           \* history: every frame the client sent, in order
    dpc,            \* drop_privileges: "none" (no call), "ready", "returned",
                    \* "panicked"
    real_user,      \* drop_privileges: the RealUser, uid and gid as options
    id_wrapper,     \* drop_privileges: the results the IdWrapper gives
    id_calls        \* history: the calls drop_privileges made on the wrapper

\* The variables of the privilege dropper, which no step of the mock server
\* touches.
privilege_vars == <<dpc, real_user, id_wrapper, id_calls>>

vars == <<cpc, wpc, order, responses, signal_sender, requests, result, ready_ch,
          looping_ch, stop_ch, conn, transport, inbox, wire, signals, signal_rx, walk,
          incoming_opt, configured, sent, privilege_vars>>

\* The worker thread has ended: the loop was left, the closure returned before
\* the loop, or the thread panicked.
WorkerExited == wpc \in {"done", "returned", "panicked"}

\* The worker holds the guard of the request log: from inner_requests_arc.lock()
\* at the start of the closure until the thread ends.
RequestsLockHeld == wpc \in {"accept", "upgraded", "recv", "walk", "check"}

\* The stop handle (looping_rx, stop_tx, join_handle) has not been dropped.
HandleAlive == cpc \in {"starting", "holding", "joining", "leaking"}

\* ------------------------------------------------------------ input alphabets

\* Spec: what the builder queues.
QueueBodies == {ConversationBody("setup", 1), ConversationBody("setup", 2),
                BroadcastBody("newPassword")}

QueueStrings == {RawText("disconnect")}

QueueOwned == {BinaryFrame(<<7>>)}

\* Spec: what the client sends.
ClientFrames ==
    {TextFrame(new_marshal(ConversationBody("setup", 1))),
     TextFrame(new_marshal(TriggerBody({}, {}))),
     TextFrame(new_marshal(TriggerBody({}, {0}))),
     TextFrame(RawText("garbage"))}

\* SpecWorker: the frames of the queue the loop starts with.
WQueueFrames ==
    {TextFrame(new_marshal(ConversationBody("setup", 1))),
     TextFrame(new_marshal(BroadcastBody("newPassword"))),
     TextFrame(new_marshal(BroadcastBody("crashed"))),
     TextFrame(RawText("garbage")),
     TextFrame(RawText("close")),
     TextFrame(RawText("disconnect")),
     BinaryFrame(<<7>>)}

\* SpecWorker: what the client sends as its one frame.
WClientFrames ==
    {TextFrame(new_marshal(ConversationBody("setup", 1))),
     TextFrame(new_marshal(BroadcastBody("crashed"))),
     TextFrame(RawText("garbage")),
     TextFrame(JsonText(<<"opcode">>, "setup", 0, NoPayload))}
    \cup {TextFrame(new_marshal(TriggerBody(b, p))) :
             b \in {{}} \cup {{n} : n \in 0..WMaxQueue},
             p \in {{}} \cup {{n} : n \in 0..WMaxQueue}}

\* SpecDialogue: the frames of the queue the loop starts with.
DQueueFrames ==
    {TextFrame(new_marshal(ConversationBody("setup", 1))),
     TextFrame(new_marshal(BroadcastBody("newPassword"))),
     TextFrame(RawText("close")),
     TextFrame(RawText("disconnect")),
     BinaryFrame(<<7>>)}

\* SpecDialogue: what the client sends.
DClientFrames ==
    {TextFrame(new_marshal(ConversationBody("setup", 1))),
     TextFrame(new_marshal(ConversationBody("check", 2))),
     TextFrame(RawText("garbage"))}

\* SpecLife: the frames of the queue the server is started with.
LQueueFrames ==
    {TextFrame(new_marshal(ConversationBody("setup", 1))),
     TextFrame(new_marshal(BroadcastBody("newPassword"))),
     TextFrame(RawText("disconnect"))}

\* SpecLife: what the client sends; the trigger with a position panics the
\* worker, which holds no sender.
LClientFrames ==
    {TextFrame(new_marshal(ConversationBody("setup", 1))),
     TextFrame(new_marshal(TriggerBody({}, {}))),
     TextFrame(new_marshal(TriggerBody({}, {0})))}

\* SpecClassify: the text frames of the queue the loop starts with: a
\* conversational answer, a broadcast, a broadcast whose payload holds the
\* characters "contextId", a broadcast written with its payload member before
\* its opcode member, and a text that is no JSON.
CQueueFrames ==
    {TextFrame(new_marshal(ConversationBody("setup", 1))),
     TextFrame(new_marshal(BroadcastBody("newPassword"))),
     TextFrame(new_marshal(MessageBody("newPassword", "FireAndForget", 0,
                                       Payload("plain", {}, {}, TRUE)))),
     TextFrame(JsonText(<<"payload", "opcode">>, "newPassword", 0, PlainPayload)),
     TextFrame(RawText("garbage"))}

\* SpecClassify: what the client sends as its one frame.
CClientFrames ==
    {TextFrame(new_marshal(ConversationBody("setup", 1))),
     TextFrame(new_marshal(TriggerBody({}, {})))}

\* SpecPrivilege: the ids getgid and getuid return; 0 is root.
IdValues == {0, 101, 202}

\* SpecPrivilege: what setgid and setuid return; 0 is success.
SetResults == {-1, 0, 47}

\* SpecPrivilege: the real users, with or without ids.
RealUsers == [uid : {{}, {101}}, gid : {{}, {202}}]

\* SpecPrivilege: the wrappers, each a choice of what every call returns.
IdWrappers ==
    [getgid_results : [1..2 -> IdValues], setgid_results : [1..1 -> SetResults],
     getuid_results : [1..2 -> IdValues], setuid_results : [1..1 -> SetResults]]

SeqsUpTo(S, n) == UNION {[1..k -> S] : k \in 0..n}

\* ------------------------------------------------------------ the test thread

\* queue_owned_message: push onto responses_arc
queue_owned_message(msg) ==
    /\ cpc = "config"
    /\ Len(responses) < MaxQueue
    /\ responses' = Append(responses, msg)
    /\ UNCHANGED <<privilege_vars, incoming_opt, cpc, wpc, order, signal_sender, requests, result, ready_ch,
                   looping_ch, stop_ch, conn, transport, inbox, wire, signals,
                   signal_rx, walk, configured, sent>>

\* queue_string
queue_string(string) == queue_owned_message(TextFrame(string))

\* queue_response
queue_response(message) == queue_string(new_marshal(message))

\* inject_signal_sender
inject_signal_sender ==
    /\ cpc = "config"
    /\ ~signal_sender
    /\ signal_sender' = TRUE
    /\ signal_rx' = TRUE
    /\ UNCHANGED <<privilege_vars, incoming_opt, cpc, wpc, order, responses, requests, result, ready_ch,
                   looping_ch, stop_ch, conn, transport, inbox, wire, signals, walk,
                   configured, sent>>

\* start, up to thread::spawn: the listener is bound (a failed bind aborts)
\* and the worker thread exists.
start(bound) ==
    /\ cpc = "config"
    /\ cpc' = IF bound THEN "starting" ELSE "aborted"
    /\ wpc' = IF bound THEN "spawned" ELSE wpc
    /\ configured' = responses
    /\ UNCHANGED <<privilege_vars, incoming_opt, order, responses, signal_sender, requests, result, ready_ch,
                   looping_ch, stop_ch, conn, transport, inbox, wire, signals,
                   signal_rx, walk, sent>>

\* Mutant: start returns the handle without waiting for the readiness signal.
start_return_without_ready ==
    /\ cpc = "starting"
    /\ cpc' = "holding"
    /\ UNCHANGED <<privilege_vars, incoming_opt, wpc, order, responses, signal_sender, requests, result,
                   ready_ch, looping_ch, stop_ch, conn, transport, inbox, wire,
                   signals, signal_rx, walk, configured, sent>>

\* start, from ready_rx.recv() to the return of the stop handle
start_return ==
    /\ cpc = "starting"
    /\ ready_ch > 0
    /\ ready_ch' = ready_ch - 1
    /\ cpc' = "holding"
    /\ UNCHANGED <<privilege_vars, incoming_opt, wpc, order, responses, signal_sender, requests, result,
                   looping_ch, stop_ch, conn, transport, inbox, wire, signals,
                   signal_rx, walk, configured, sent>>

\* Mutant: the order is sent and the worker joined whatever the poll says.
send_terminate_order_always_joins(kill) ==
    /\ cpc = "holding"
    /\ order' = IF kill THEN "kill" ELSE "stop"
    /\ looping_ch' = IF looping_ch > 0 THEN looping_ch - 1 ELSE looping_ch
    /\ stop_ch' = IF WorkerExited THEN stop_ch ELSE Append(stop_ch, kill)
    /\ cpc' = "joining"
    /\ UNCHANGED <<privilege_vars, incoming_opt, wpc, responses, signal_sender, requests, result, ready_ch,
                   conn, transport, inbox, wire, signals, signal_rx, walk,
                   configured, sent>>

\* Mutant: the handle is not consumed by a call that found the looping signal.
send_terminate_order_keeps_handle(kill) ==
    /\ cpc = "holding"
    /\ order' = IF kill THEN "kill" ELSE "stop"
    /\ IF looping_ch > 0
       THEN /\ looping_ch' = looping_ch - 1
            /\ stop_ch' = IF WorkerExited THEN stop_ch ELSE Append(stop_ch, kill)
            /\ cpc' = "holding"
       ELSE /\ cpc' = "leaking"
            /\ UNCHANGED <<looping_ch, stop_ch>>
    /\ UNCHANGED <<privilege_vars, incoming_opt, wpc, responses, signal_sender, requests, result, ready_ch,
                   conn, transport, inbox, wire, signals, signal_rx, walk,
                   configured, sent>>

\* Mutant: the worker is joined without an order having been sent.
send_terminate_order_forgets_order(kill) ==
    /\ cpc = "holding"
    /\ order' = IF kill THEN "kill" ELSE "stop"
    /\ IF looping_ch > 0
       THEN /\ looping_ch' = looping_ch - 1
            /\ stop_ch' = stop_ch
            /\ cpc' = "joining"
       ELSE /\ cpc' = "leaking"
            /\ UNCHANGED <<looping_ch, stop_ch>>
    /\ UNCHANGED <<privilege_vars, incoming_opt, wpc, responses, signal_sender, requests, result, ready_ch,
                   conn, transport, inbox, wire, signals, signal_rx, walk,
                   configured, sent>>

\* send_terminate_order up to the join or the decision to leak: the looping
\* signal is polled; when present the order is sent (a send to a channel whose
\* receiver is gone is ignored).
send_terminate_order(kill) ==
    /\ cpc = "holding"
    /\ order' = IF kill THEN "kill" ELSE "stop"
    /\ IF looping_ch > 0
       THEN /\ looping_ch' = looping_ch - 1
            /\ stop_ch' = IF WorkerExited THEN stop_ch ELSE Append(stop_ch, kill)
            /\ cpc' = "joining"
       ELSE /\ cpc' = "leaking"
            /\ UNCHANGED <<looping_ch, stop_ch>>
    /\ UNCHANGED <<privilege_vars, incoming_opt, wpc, responses, signal_sender, requests, result, ready_ch,
                   conn, transport, inbox, wire, signals, signal_rx, walk,
                   configured, sent>>

\* stop
stop == send_terminate_order(FALSE)

\* kill
kill == send_terminate_order(TRUE)

\* Mutant: the log is cloned without waiting for the worker to exit.
join_and_retrieve_without_join ==
    /\ cpc = "joining"
    /\ result' = requests
    /\ cpc' = "returned"
    /\ UNCHANGED <<privilege_vars, incoming_opt, wpc, order, responses, signal_sender, requests, ready_ch,
                   looping_ch, stop_ch, conn, transport, inbox, wire, signals,
                   signal_rx, walk, configured, sent>>

\* Mutant: a poisoned guard of the request log yields an empty log.
join_and_retrieve_loses_poisoned_log ==
    /\ cpc = "joining"
    /\ WorkerExited
    /\ result' = IF wpc = "panicked" THEN <<>> ELSE requests
    /\ cpc' = "returned"
    /\ UNCHANGED <<privilege_vars, incoming_opt, wpc, order, responses, signal_sender, requests, ready_ch,
                   looping_ch, stop_ch, conn, transport, inbox, wire, signals,
                   signal_rx, walk, configured, sent>>

\* send_terminate_order, Ok branch: join, then lock and clone the request log
\* (a poisoned guard is opened with into_inner).
join_and_retrieve ==
    /\ cpc = "joining"
    /\ WorkerExited
    /\ result' = requests
    /\ cpc' = "returned"
    /\ UNCHANGED <<privilege_vars, incoming_opt, wpc, order, responses, signal_sender, requests, ready_ch,
                   looping_ch, stop_ch, conn, transport, inbox, wire, signals,
                   signal_rx, walk, configured, sent>>

\* Mutant: the Err branch locks and clones the request log as well.
leak_and_return_reads_log ==
    /\ cpc = "leaking"
    /\ result' = requests
    /\ cpc' = "leaked"
    /\ UNCHANGED <<privilege_vars, incoming_opt, wpc, order, responses, signal_sender, requests, ready_ch,
                   looping_ch, stop_ch, conn, transport, inbox, wire, signals,
                   signal_rx, walk, configured, sent>>

\* send_terminate_order, Err branch: vec![] is returned and the handle dropped.
leak_and_return ==
    /\ cpc = "leaking"
    /\ result' = <<>>
    /\ cpc' = "leaked"
    /\ UNCHANGED <<privilege_vars, incoming_opt, wpc, order, responses, signal_sender, requests, ready_ch,
                   looping_ch, stop_ch, conn, transport, inbox, wire, signals,
                   signal_rx, walk, configured, sent>>

\* ---------------------------------------------------------------- the client

\* The client connects to the bound listener, offering the server's protocol
\* or not.
client_connect(offers) ==
    /\ conn = "none"
    /\ cpc \notin {"config", "aborted"}
    /\ conn' = IF offers THEN "ok" ELSE "bad"
    /\ UNCHANGED <<privilege_vars, incoming_opt, cpc, wpc, order, responses, signal_sender, requests, result,
                   ready_ch, looping_ch, stop_ch, transport, inbox, wire, signals,
                   signal_rx, walk, configured, sent>>

\* The upgrade was accepted by the worker: the client can send and receive.
Upgraded == conn = "ok" /\ wpc \notin {"none", "spawned", "accept"}

\* The client sends a frame.
client_send(frame, budget) ==
    /\ Upgraded
    /\ transport = "open"
    /\ Len(inbox) < MaxInflight
    /\ Len(requests) + Len(inbox) < budget
    /\ inbox' = Append(inbox, frame)
    /\ sent' = Append(sent, frame)
    /\ UNCHANGED <<privilege_vars, incoming_opt, cpc, wpc, order, responses, signal_sender, requests, result,
                   ready_ch, looping_ch, stop_ch, conn, transport, wire, signals,
                   signal_rx, walk, configured>>

\* The connection fails: from now on the worker's reads and writes fail.
transport_break ==
    /\ Upgraded
    /\ transport = "open"
    /\ transport' = "broken"
    /\ inbox' = <<>>
    /\ UNCHANGED <<privilege_vars, incoming_opt, cpc, wpc, order, responses, signal_sender, requests, result,
                   ready_ch, looping_ch, stop_ch, conn, wire, signals, signal_rx,
                   walk, configured, sent>>

\* ----------------------------------------------------------- the worker thread

\* The spawned closure up to ready_tx.send: the server and the request log are
\* locked and the readiness signal is sent.
worker_ready ==
    /\ wpc = "spawned"
    /\ ready_ch' = ready_ch + 1
    /\ wpc' = "accept"
    /\ UNCHANGED <<privilege_vars, incoming_opt, cpc, order, responses, signal_sender, requests, result,
                   looping_ch, stop_ch, conn, transport, inbox, wire, signals,
                   signal_rx, walk, configured, sent>>

\* Mutant: the upgrade is accepted whatever protocols the client offers.
worker_accept_any_protocol ==
    /\ wpc = "accept"
    /\ conn # "none"
    /\ wpc' = "upgraded"
    /\ UNCHANGED <<privilege_vars, incoming_opt, cpc, order, responses, signal_sender, requests, result,
                   ready_ch, looping_ch, stop_ch, conn, transport, inbox, wire,
                   signals, signal_rx, walk, configured, sent>>

\* server.accept(), the protocol check and upgrade.accept(): an offer without
\* the server's protocol panics.
worker_accept ==
    /\ wpc = "accept"
    /\ conn # "none"
    /\ wpc' = IF conn = "ok" THEN "upgraded" ELSE "panicked"
    /\ UNCHANGED <<privilege_vars, incoming_opt, cpc, order, responses, signal_sender, requests, result,
                   ready_ch, looping_ch, stop_ch, conn, transport, inbox, wire,
                   signals, signal_rx, walk, configured, sent>>

\* looping_tx.send(()): the closure returns when the handle's receiver is gone.
worker_signal_looping ==
    /\ wpc = "upgraded"
    /\ looping_ch' = IF HandleAlive THEN looping_ch + 1 ELSE looping_ch
    /\ wpc' = IF HandleAlive THEN "recv" ELSE "returned"
    /\ UNCHANGED <<privilege_vars, incoming_opt, cpc, order, responses, signal_sender, requests, result,
                   ready_ch, stop_ch, conn, transport, inbox, wire, signals,
                   signal_rx, walk, configured, sent>>

\* What client.recv_message() can return in the current state.
RecvOutcomes ==
    IF transport = "broken"
    THEN {Incoming("NoDataAvailable", CloseFrame), Incoming("IoError", CloseFrame)}
    ELSE IF inbox = <<>>
    THEN {Incoming("WouldBlock", CloseFrame)}
    ELSE {Incoming("Ok", Head(inbox))}

\* client.send_message(..).unwrap() on each frame of out: the write fails, and
\* the thread panics, on a broken connection.
SendFails(out) == out # <<>> /\ transport = "broken"

\* Mutant: a return value of 1 does not leave the loop before the check.
AfterFlow_checks_on_break(flow) ==
    IF flow = "panic" THEN "panicked" ELSE "check"

\* The worker's position after a handler with the given flow.
AfterFlow(flow) ==
    IF flow = "panic" THEN "panicked" ELSE IF flow = "break" THEN "done" ELSE "check"

\* The match on message_body.path in the loop: which frames of the log entry
\* go to handle_broadcast_trigger.
IsBroadcastTrigger(entry) ==
    entry.ok /\ entry.body.path = "FireAndForget" /\ entry.body.opcode = "broadcastTrigger"

\* Mutant: a fire-and-forget message is answered from the queue as well.
dispatch_answers_fire_and_forget(queue, entry) ==
    IF entry.ok
    THEN handle_conversational_incoming_message(queue, entry.body, entry.body.ctx)
    ELSE handle_unrecognized_owned_message(queue, entry)

\* The dispatch of a recorded entry that is no broadcast trigger.
dispatch(queue, entry) ==
    IF entry.ok
    THEN IF entry.body.path = "Conversation"
         THEN handle_conversational_incoming_message(queue, entry.body, entry.body.ctx)
         ELSE Effect(queue, <<>>, "continue")
    ELSE handle_unrecognized_owned_message(queue, entry)

\* Mutant: the sender stays with the server after a trigger.
begin_broadcast_trigger_keeps_sender(entry) ==
    LET r == handle_broadcast_trigger_resolve(entry.body, signal_sender, responses)
        w == Walk("active", 0, 0, 0, r.batch, r.position, r.sender,
                  Len(responses), responses, Len(wire), signals)
    IN  /\ signal_sender' = signal_sender
        /\ wpc' = IF r.panic THEN "panicked"
                  ELSE IF Len(responses) = 0 THEN "check" ELSE "walk"
        /\ walk' = IF r.panic THEN NoWalk
                   ELSE IF Len(responses) = 0 THEN [w EXCEPT !.phase = "finished"]
                   ELSE w
        /\ UNCHANGED <<responses, wire>>

\* handle_broadcast_trigger up to the for loop: the sender is taken from the
\* server, the tuple is resolved (or the thread panics) and the walk starts.
begin_broadcast_trigger(entry) ==
    LET r == handle_broadcast_trigger_resolve(entry.body, signal_sender, responses)
        w == Walk("active", 0, 0, 0, r.batch, r.position, r.sender,
                  Len(responses), responses, Len(wire), signals)
    IN  /\ signal_sender' = FALSE
        /\ wpc' = IF r.panic THEN "panicked"
                  ELSE IF Len(responses) = 0 THEN "check" ELSE "walk"
        /\ walk' = IF r.panic THEN NoWalk
                   ELSE IF Len(responses) = 0 THEN [w EXCEPT !.phase = "finished"]
                   ELSE w
        /\ UNCHANGED <<responses, wire>>

\* Mutant: the entry is recorded after its dispatch, so that a dispatch that
\* ends the loop or panics leaves no entry.
worker_recv_logs_after_dispatch ==
    /\ wpc = "recv"
    /\ \E incoming \in RecvOutcomes :
          LET opt == handle_incoming_raw(incoming)
          IN  /\ inbox' = IF incoming.kind = "Ok" THEN Tail(inbox) ELSE inbox
              /\ incoming_opt' = opt.some
              /\ IF ~opt.some
                 THEN /\ wpc' = "check"
                      /\ UNCHANGED <<requests, responses, wire, signal_sender, walk>>
                 ELSE IF IsBroadcastTrigger(opt.entry)
                      THEN /\ requests' = Append(requests, opt.entry)
                           /\ begin_broadcast_trigger(opt.entry)
                      ELSE LET eff == dispatch(responses, opt.entry)
                           IN  /\ requests' = IF SendFails(eff.out) \/ eff.flow # "continue"
                                              THEN requests
                                              ELSE Append(requests, opt.entry)
                               /\ responses' = eff.queue
                               /\ wire' = IF SendFails(eff.out) THEN wire
                                          ELSE wire \o eff.out
                               /\ wpc' = IF SendFails(eff.out) THEN "panicked"
                                         ELSE AfterFlow(eff.flow)
                               /\ walk' = NoWalk
                               /\ UNCHANGED signal_sender
    /\ UNCHANGED <<privilege_vars, cpc, order, result, ready_ch, looping_ch, stop_ch, conn,
                   transport, signals, signal_rx, configured, sent>>

\* One loop iteration up to the termination check: the read, the recording of
\* the entry and its dispatch.
worker_recv ==
    /\ wpc = "recv"
    /\ \E incoming \in RecvOutcomes :
          LET opt == handle_incoming_raw(incoming)
          IN  /\ inbox' = IF incoming.kind = "Ok" THEN Tail(inbox) ELSE inbox
              /\ incoming_opt' = opt.some
              /\ IF ~opt.some
                 THEN /\ wpc' = "check"
                      /\ UNCHANGED <<requests, responses, wire, signal_sender, walk>>
                 ELSE /\ requests' = Append(requests, opt.entry)
                      /\ IF IsBroadcastTrigger(opt.entry)
                         THEN begin_broadcast_trigger(opt.entry)
                         ELSE LET eff == dispatch(responses, opt.entry)
                              IN  /\ responses' = eff.queue
                                  /\ wire' = IF SendFails(eff.out) THEN wire
                                             ELSE wire \o eff.out
                                  /\ wpc' = IF SendFails(eff.out) THEN "panicked"
                                            ELSE AfterFlow(eff.flow)
                                  /\ walk' = NoWalk
                                  /\ UNCHANGED signal_sender
    /\ UNCHANGED <<privilege_vars, cpc, order, result, ready_ch, looping_ch, stop_ch, conn,
                   transport, signals, signal_rx, configured, sent>>

\* Mutant: the signal is sent at every iteration from the position on.
signal_wanted_from_position(w) == \E p \in w.position : p <= w.i

\* if position == i: the signal is sent at this iteration of the walk.
signal_wanted(w) == w.position = {w.i}

\* One iteration of the for loop of handle_broadcast_trigger.
walk_step ==
    /\ wpc = "walk"
    /\ LET sig == signal_wanted(walk)
           st == handle_broadcast_trigger_step(responses, walk)
           last == st.brk \/ walk.i + 1 = walk.starting_lenght
       IN  IF sig /\ ~signal_rx
           THEN /\ wpc' = "panicked"
                /\ UNCHANGED <<responses, wire, signals, walk>>
           ELSE /\ signals' = IF sig THEN signals + 1 ELSE signals
                /\ IF st.panic
                   THEN /\ wpc' = "panicked"
                        /\ UNCHANGED <<responses, wire, walk>>
                   ELSE /\ responses' = st.queue
                        /\ IF SendFails(st.out)
                           THEN /\ wpc' = "panicked"
                                /\ UNCHANGED <<wire, walk>>
                           ELSE /\ wire' = wire \o st.out
                                /\ wpc' = IF last THEN "check" ELSE "walk"
                                /\ walk' = [walk EXCEPT
                                     !.phase = IF last THEN "finished" ELSE "active",
                                     !.i = IF last THEN walk.i ELSE walk.i + 1,
                                     !.already_sent = st.already_sent,
                                     !.factor_of_position_reduction =
                                         st.factor_of_position_reduction]
    /\ UNCHANGED <<privilege_vars, incoming_opt, cpc, order, signal_sender, requests, result, ready_ch,
                   looping_ch, stop_ch, conn, transport, inbox, signal_rx,
                   configured, sent>>

\* Mutant: the termination check can cut into the walk of a trigger.
worker_check_during_dispatch ==
    /\ wpc \in {"check", "walk"}
    /\ LET tc == termination_check(stop_ch)
       IN  /\ stop_ch' = tc.channel
           /\ wire' = IF SendFails(tc.out) THEN wire ELSE wire \o tc.out
           /\ wpc' = IF SendFails(tc.out) THEN "panicked"
                     ELSE IF tc.flow = "break" THEN "done"
                     ELSE IF wpc = "walk" THEN "walk" ELSE "recv"
           /\ incoming_opt' = IF ~SendFails(tc.out) /\ tc.flow = "continue" /\ wpc = "check"
                               THEN FALSE ELSE incoming_opt
    /\ UNCHANGED <<privilege_vars, cpc, order, responses, signal_sender, requests, result,
                   ready_ch, looping_ch, conn, transport, inbox, signals,
                   signal_rx, walk, configured, sent>>

\* The end of a loop iteration: the termination check, then the sleep.
worker_check ==
    /\ wpc = "check"
    /\ LET tc == termination_check(stop_ch)
       IN  /\ stop_ch' = tc.channel
           /\ wire' = IF SendFails(tc.out) THEN wire ELSE wire \o tc.out
           /\ wpc' = IF SendFails(tc.out) THEN "panicked"
                     ELSE IF tc.flow = "break" THEN "done" ELSE "recv"
           /\ incoming_opt' = IF ~SendFails(tc.out) /\ tc.flow = "continue"
                               THEN FALSE ELSE incoming_opt
    /\ UNCHANGED <<privilege_vars, cpc, order, responses, signal_sender, requests, result,
                   ready_ch, looping_ch, conn, transport, inbox, signals,
                   signal_rx, walk, configured, sent>>

\* ------------------------------------------------------------ specifications

\* No call of drop_privileges is part of the run.
PrivilegeUnused ==
    /\ dpc = "none"
    /\ real_user = [uid |-> {}, gid |-> {}]
    /\ id_wrapper = [getgid_results |-> <<>>, setgid_results |-> <<>>,
                     getuid_results |-> <<>>, setuid_results |-> <<>>]
    /\ id_calls = <<>>

\* The call of drop_privileges, from its entry to its return or panic.
call_drop_privileges ==
    /\ dpc = "ready"
    /\ LET r == drop_privileges(real_user, id_wrapper)
       IN  /\ dpc' = IF r.panic THEN "panicked" ELSE "returned"
           /\ id_calls' = r.calls
    /\ UNCHANGED <<real_user, id_wrapper, cpc, wpc, order, responses, signal_sender,
                   requests, result, ready_ch, looping_ch, stop_ch, conn, transport,
                   inbox, wire, signals, signal_rx, walk, incoming_opt, configured,
                   sent>>

\* MockWebSocketsServer::new: nothing queued, no sender, nothing started.
Init ==
    /\ cpc = "config"
    /\ wpc = "none"
    /\ order = "none"
    /\ responses = <<>>
    /\ signal_sender = FALSE
    /\ requests = <<>>
    /\ result = <<>>
    /\ ready_ch = 0
    /\ looping_ch = 0
    /\ stop_ch = <<>>
    /\ conn = "none"
    /\ transport = "open"
    /\ inbox = <<>>
    /\ wire = <<>>
    /\ signals = 0
    /\ signal_rx = FALSE
    /\ walk = NoWalk
    /\ incoming_opt = FALSE
    /\ PrivilegeUnused
    /\ configured = <<>>
    /\ sent = <<>>

Next ==
    \/ \E m \in QueueBodies : queue_response(m)
    \/ \E t \in QueueStrings : queue_string(t)
    \/ \E om \in QueueOwned : queue_owned_message(om)
    \/ inject_signal_sender
    \/ \E bound \in BOOLEAN : start(bound)
    \/ start_return
    \/ stop
    \/ kill
    \/ join_and_retrieve
    \/ leak_and_return
    \/ \E offers \in BOOLEAN : client_connect(offers)
    \/ \E f \in ClientFrames : client_send(f, MaxRequests)
    \/ transport_break
    \/ worker_ready
    \/ worker_accept
    \/ worker_signal_looping
    \/ worker_recv
    \/ walk_step
    \/ worker_check

Spec == Init /\ [][Next]_vars

\* The worker in its loop, right after the handshake, with any queue the
\* builder can have configured, with or without a sender, whose receiver the
\* test may have dropped.  The client sends one frame, so that every handler
\* is applied to every queue, sender and frame; the handle is held and never
\* used.
InitWorker ==
    /\ cpc = "holding"
    /\ wpc = "recv"
    /\ order = "none"
    /\ responses \in SeqsUpTo(WQueueFrames, WMaxQueue)
    /\ signal_sender \in BOOLEAN
    /\ signal_rx \in BOOLEAN
    /\ signal_rx => signal_sender
    /\ requests = <<>>
    /\ result = <<>>
    /\ ready_ch = 0
    /\ looping_ch = 1
    /\ stop_ch = <<>>
    /\ conn = "ok"
    /\ transport = "open"
    /\ inbox = <<>>
    /\ wire = <<>>
    /\ signals = 0
    /\ walk = NoWalk
    /\ incoming_opt = FALSE
    /\ PrivilegeUnused
    /\ configured = responses
    /\ sent = <<>>

NextWorker ==
    \/ \E f \in WClientFrames : client_send(f, 1)
    \/ worker_recv
    \/ walk_step
    \/ worker_check

SpecWorker == InitWorker /\ [][NextWorker]_vars

\* The worker in its loop, right after the handshake, with any queue of
\* answers and directives, without a sender.  The client sends a sequence of
\* requests, none of them a trigger, so that every sequence of dispatches
\* against every queue is run; the handle is held and never used.
InitDialogue ==
    /\ cpc = "holding"
    /\ wpc = "recv"
    /\ order = "none"
    /\ responses \in SeqsUpTo(DQueueFrames, DMaxQueue)
    /\ signal_sender = FALSE
    /\ signal_rx = FALSE
    /\ requests = <<>>
    /\ result = <<>>
    /\ ready_ch = 0
    /\ looping_ch = 1
    /\ stop_ch = <<>>
    /\ conn = "ok"
    /\ transport = "open"
    /\ inbox = <<>>
    /\ wire = <<>>
    /\ signals = 0
    /\ walk = NoWalk
    /\ incoming_opt = FALSE
    /\ PrivilegeUnused
    /\ configured = responses
    /\ sent = <<>>

NextDialogue ==
    \/ \E f \in DClientFrames : client_send(f, DMaxRequests)
    \/ worker_recv
    \/ worker_check

SpecDialogue == InitDialogue /\ [][NextDialogue]_vars

\* The worker in its loop, right after the handshake, with any queue of text
\* frames, without a sender.  The client sends one frame, a conversational
\* request or a broadcast trigger, so that both handlers meet every queued
\* text; the handle is held and never used.
InitClassify ==
    /\ cpc = "holding"
    /\ wpc = "recv"
    /\ order = "none"
    /\ responses \in SeqsUpTo(CQueueFrames, CMaxQueue)
    /\ signal_sender = FALSE
    /\ signal_rx = FALSE
    /\ requests = <<>>
    /\ result = <<>>
    /\ ready_ch = 0
    /\ looping_ch = 1
    /\ stop_ch = <<>>
    /\ conn = "ok"
    /\ transport = "open"
    /\ inbox = <<>>
    /\ wire = <<>>
    /\ signals = 0
    /\ walk = NoWalk
    /\ incoming_opt = FALSE
    /\ PrivilegeUnused
    /\ configured = responses
    /\ sent = <<>>

NextClassify ==
    \/ \E f \in CClientFrames : client_send(f, 1)
    \/ worker_recv
    \/ walk_step
    \/ worker_check

SpecClassify == InitClassify /\ [][NextClassify]_vars

\* One call of drop_privileges on any real user and any wrapper; no mock
\* server is running.
InitPrivilege ==
    /\ dpc = "ready"
    /\ real_user \in RealUsers
    /\ id_wrapper \in IdWrappers
    /\ id_calls = <<>>
    /\ cpc = "config"
    /\ wpc = "none"
    /\ order = "none"
    /\ responses = <<>>
    /\ signal_sender = FALSE
    /\ requests = <<>>
    /\ result = <<>>
    /\ ready_ch = 0
    /\ looping_ch = 0
    /\ stop_ch = <<>>
    /\ conn = "none"
    /\ transport = "open"
    /\ inbox = <<>>
    /\ wire = <<>>
    /\ signals = 0
    /\ signal_rx = FALSE
    /\ walk = NoWalk
    /\ incoming_opt = FALSE
    /\ configured = <<>>
    /\ sent = <<>>

NextPrivilege == call_drop_privileges

SpecPrivilege == InitPrivilege /\ [][NextPrivilege]_vars

\* The whole life of a server whose builder calls are done: start, the
\* handshake, the loop, stop or kill.  The threads are scheduled fairly: a
\* step the worker thread can take is taken, and a call of stop() or kill()
\* that can go on does; the client is free to do nothing.
InitLife ==
    /\ cpc = "config"
    /\ wpc = "none"
    /\ order = "none"
    /\ responses \in SeqsUpTo(LQueueFrames, LMaxQueue)
    /\ signal_sender = FALSE
    /\ signal_rx = FALSE
    /\ requests = <<>>
    /\ result = <<>>
    /\ ready_ch = 0
    /\ looping_ch = 0
    /\ stop_ch = <<>>
    /\ conn = "none"
    /\ transport = "open"
    /\ inbox = <<>>
    /\ wire = <<>>
    /\ signals = 0
    /\ walk = NoWalk
    /\ incoming_opt = FALSE
    /\ PrivilegeUnused
    /\ configured = <<>>
    /\ sent = <<>>

NextLife ==
    \/ \E bound \in BOOLEAN : start(bound)
    \/ start_return
    \/ stop
    \/ kill
    \/ join_and_retrieve
    \/ leak_and_return
    \/ \E offers \in BOOLEAN : client_connect(offers)
    \/ \E f \in LClientFrames : client_send(f, LMaxRequests)
    \/ transport_break
    \/ worker_ready
    \/ worker_accept
    \/ worker_signal_looping
    \/ worker_recv
    \/ walk_step
    \/ worker_check

FairLife ==
    /\ WF_vars(worker_ready)
    /\ WF_vars(worker_accept)
    /\ WF_vars(worker_signal_looping)
    /\ WF_vars(worker_recv)
    /\ WF_vars(walk_step)
    /\ WF_vars(worker_check)
    /\ WF_vars(start_return)
    /\ WF_vars(join_and_retrieve)
    /\ WF_vars(leak_and_return)

SpecLife == InitLife /\ [][NextLife]_vars /\ FairLife

\* ------------------------------------------------------------------ claims

Min(a, b) == IF a < b THEN a ELSE b

Last(q) == q[Len(q)]

\* The decoded form of a frame the client sent.
Decoded(frame) == new_unmarshal_from_ui(frame.text)

IsConversationalFrame(frame) ==
    frame.type = "Text" /\ Decoded(frame).ok /\ Decoded(frame).body.path = "Conversation"

\* A queued text frame decodes as a fire-and-forget message: a broadcast.
IsBroadcastFrame(frame) ==
    frame.type = "Text" /\ Decoded(frame).ok /\ Decoded(frame).body.path = "FireAndForget"

\* Every frame the client sent so far is a conversational request.
OnlyConversationalSent == \A j \in 1..Len(sent) : IsConversationalFrame(sent[j])

\* A queued text that the conversational dispatch sends as it is: no directive
\* and no protocol-shaped text without the conversational marker.
VerbatimText(frame) ==
    /\ frame.type = "Text"
    /\ frame.text \notin {RawText("disconnect"), RawText("close")}
    /\ (contains_contextId(frame.text) \/ ~starts_with_opcode(frame.text))

\* The i-th request was recorded as sent and answered by the i-th configured
\* frame, and a stop() that joined the worker returned the whole log.
FifoAnswers ==
    /\ \A j \in 1..Len(requests) : requests[j] = OkEntry(Decoded(sent[j]).body)
    /\ \A j \in 1..Min(Len(requests), Len(configured)) :
          Len(wire) >= j /\ wire[j] = configured[j]
    /\ (cpc = "returned" /\ order = "stop") =>
          /\ result = requests
          /\ (inbox = <<>> => Len(result) = Len(sent))

\* C1 as claimed: whatever text frames are queued, conversational requests on
\* an intact connection are answered by the queued frames in FIFO order and
\* the log returned by stop() holds the requests in arrival order.
C1_FifoAnyText ==
    (/\ \A j \in 1..Len(configured) : configured[j].type = "Text"
     /\ OnlyConversationalSent
     /\ transport = "open") => FifoAnswers

\* C1 amended: when every queued text is one the dispatch sends as it is (no
\* "disconnect" or "close" directive, no protocol-shaped text without the
\* contextId marker), the i-th conversational request on an intact connection
\* is answered by exactly the i-th queued frame, and the log a joining stop()
\* returns holds every request read, in the order the client sent them.
C1_FifoVerbatimText ==
    (/\ \A j \in 1..Len(configured) : VerbatimText(configured[j])
     /\ OnlyConversationalSent
     /\ transport = "open") => FifoAnswers

C1_Witness ==
    /\ cpc = "returned" /\ order = "stop" /\ transport = "open"
    /\ Len(configured) = 2 /\ configured[1] # configured[2]
    /\ \A j \in 1..2 : VerbatimText(configured[j])
    /\ OnlyConversationalSent
    /\ Len(sent) = 2 /\ Len(result) = 2
    /\ wire[1] = configured[1] /\ wire[2] = configured[2]

\* The step records a decoded conversational request.
RecordsConversation ==
    /\ wpc = "recv" /\ Len(requests') = Len(requests) + 1
    /\ Last(requests').ok /\ Last(requests').body.path = "Conversation"

\* C2: a conversational request dispatched on an empty queue is answered with
\* exactly the sentinel frame Binary([101]); the queue stays empty and the
\* worker goes on to the termination check of the same iteration.
C2_EmptyQueueSentinel ==
    [][(RecordsConversation /\ responses = <<>>) =>
          /\ wire' = Append(wire, SentinelFrame)
          /\ SentinelFrame.type = "Binary" /\ SentinelFrame.bytes = <<101>>
          /\ responses' = <<>>
          /\ wpc' = "check"]_vars

C2_Witness ==
    /\ wpc = "check" /\ responses = <<>> /\ configured = <<>>
    /\ requests # <<>> /\ Last(requests).ok
    /\ Last(requests).body.path = "Conversation"
    /\ wire = <<SentinelFrame>>

\* The step records a decoded fire-and-forget message that is no trigger.
RecordsForgettable ==
    /\ wpc = "recv" /\ Len(requests') = Len(requests) + 1
    /\ Last(requests').ok /\ Last(requests').body.path = "FireAndForget"
    /\ Last(requests').body.opcode # "broadcastTrigger"

\* C3: a decoded fire-and-forget message whose opcode is not broadcastTrigger
\* is only appended to the log: no frame is sent and the queue is unchanged.
C3_FireAndForgetForgotten ==
    [][RecordsForgettable =>
          /\ wire' = wire
          /\ responses' = responses
          /\ requests' = Append(requests, OkEntry(Decoded(Head(inbox)).body))
          /\ wpc' = "check"]_vars

C3_Witness ==
    /\ wpc = "check" /\ wire = <<>> /\ Len(responses) > 0 /\ responses = configured
    /\ Len(requests) = 1 /\ requests[1].ok
    /\ requests[1].body.path = "FireAndForget"
    /\ requests[1].body.opcode # "broadcastTrigger"

\* The number of broadcast frames the queue q starts with.
LeadingBroadcasts(q) ==
    CHOOSE k \in 0..Len(q) :
        /\ \A j \in 1..k : IsBroadcastFrame(q[j])
        /\ (k = Len(q) \/ ~IsBroadcastFrame(q[k + 1]))

\* The position of the first conversational frame of q, Len(q) + 1 without one.
FirstConversational(q) ==
    CHOOSE k \in 1..(Len(q) + 1) :
        /\ \A j \in 1..(k - 1) : ~IsConversationalFrame(q[j])
        /\ (k = Len(q) + 1 \/ IsConversationalFrame(q[k]))

\* While a walk is active or finished the last log entry is its trigger.
InWalk == walk.phase \in {"active", "finished"} /\ wpc # "panicked"

TriggerBatch == Last(requests).body.payload.batch

TriggerPosition == Last(requests).body.payload.pos

\* The frames the walk has sent so far.
WalkSent == SubSeq(wire, walk.wire0 + 1, walk.wire0 + walk.already_sent)

\* C4: a trigger with an explicit batch size b >= 1, arriving when the queue
\* starts with k >= 1 broadcasts, sends exactly the first min(b, k) of them in
\* queue order and removes them; the rest of the queue stays as it was.
C4_BatchSendsLeadingBroadcasts ==
    (/\ walk.phase = "finished"
     /\ TriggerBatch # {}
     /\ \A b \in TriggerBatch : b >= 1
     /\ LeadingBroadcasts(walk.q0) >= 1) =>
        LET b == CHOOSE x \in TriggerBatch : TRUE
            n == Min(b, LeadingBroadcasts(walk.q0))
        IN  /\ walk.already_sent = n
            /\ Len(wire) = walk.wire0 + n
            /\ WalkSent = SubSeq(walk.q0, 1, n)
            /\ responses = SubSeq(walk.q0, n + 1, Len(walk.q0))

\* C5: a trigger never sends or removes the first conversational frame of the
\* queue or anything behind it: what it sends and removes is a prefix of the
\* queue that ends before that frame.  Without a batch size the walk sends
\* every leading broadcast and ends at the first conversational frame.
C5_WalkStopsAtConversation ==
    InWalk =>
        LET q0 == walk.q0
            p == FirstConversational(q0)
        IN  /\ walk.already_sent < p
            /\ Len(wire) = walk.wire0 + walk.already_sent
            /\ WalkSent = SubSeq(q0, 1, walk.already_sent)
            /\ responses = SubSeq(q0, walk.already_sent + 1, Len(q0))
            /\ (walk.phase = "finished" /\ TriggerBatch = {}) =>
                  /\ walk.already_sent >= LeadingBroadcasts(q0)
                  /\ (p <= Len(q0) => walk.i = p - 1)

C5_Witness ==
    /\ walk.phase = "finished" /\ TriggerBatch = {}
    /\ Len(walk.q0) = 3
    /\ IsBroadcastFrame(walk.q0[1])
    /\ IsConversationalFrame(walk.q0[2])
    /\ IsBroadcastFrame(walk.q0[3])
    /\ wire = <<walk.q0[1]>>
    /\ responses = Tail(walk.q0)

\* C6 as claimed: a trigger that asks for a signal, handled while the server
\* holds a sender, delivers exactly one signal during its handling.
C6_SignalExactlyOnce ==
    (/\ walk.phase = "finished"
     /\ TriggerPosition # {}
     /\ walk.signal_sender_opt) => signals = walk.signals0 + 1

\* C6 amended: such a trigger delivers at most one signal, and when its
\* handling has ended exactly one if and only if the walk ran its iteration
\* with the original index p: the queue was longer than p when the trigger
\* arrived and neither the batch size nor a conversational frame ended the
\* walk before.  Otherwise no signal is delivered.
C6_SignalWhenPositionReached ==
    (/\ walk.phase \in {"active", "finished"}
     /\ TriggerPosition # {}
     /\ walk.signal_sender_opt) =>
        LET p == CHOOSE x \in TriggerPosition : TRUE
        IN  /\ signals \in {walk.signals0, walk.signals0 + 1}
            /\ walk.phase = "finished" =>
                  (signals = walk.signals0 + 1
                      <=> (walk.starting_lenght > p /\ p <= walk.i))
            /\ walk.phase = "active" =>
                  (signals = walk.signals0 + 1 <=> p < walk.i)

C6_Witness ==
    /\ walk.phase = "finished" /\ TriggerPosition = {1} /\ walk.signal_sender_opt
    /\ signals = walk.signals0 + 1
    /\ walk.already_sent = 2

\* No "disconnect" directive was configured.
NoDisconnectQueued ==
    \A j \in 1..Len(configured) : configured[j] # TextFrame(RawText("disconnect"))

\* C7 as claimed: once a stop() that found the looping signal has returned,
\* the worker has sent a Close frame as its last frame.
C7_StopAlwaysCloses ==
    (cpc = "returned" /\ order = "stop") => (wire # <<>> /\ Last(wire) = CloseFrame)

\* C7 amended: a worker that is still in its loop when it finds the order of
\* stop() at a termination check, on an intact connection, sends a Close frame
\* and leaves the loop; so after a stop() that joined a worker which left the
\* loop neither by a "disconnect" directive nor by a fatal failure, the last
\* frame on the wire is Close.
C7_StopObservedSendsClose ==
    /\ [][(/\ wpc = "check" /\ wpc' # "check"
            /\ order = "stop" /\ stop_ch # <<>> /\ transport = "open") =>
             (wire' = Append(wire, CloseFrame) /\ wpc' = "done")]_vars
    /\ []((cpc = "returned" /\ order = "stop" /\ wpc = "done" /\ NoDisconnectQueued) =>
             (wire # <<>> /\ Last(wire) = CloseFrame))

C7_Witness ==
    /\ cpc = "returned" /\ order = "stop" /\ wpc = "done" /\ NoDisconnectQueued
    /\ Len(result) = 1
    /\ Len(wire) = 2 /\ Last(wire) = CloseFrame

\* C8: the worker that finds a kill order at its termination check leaves the
\* loop without sending a Close frame or any other frame.
C8_KillSendsNothing ==
    [][(wpc = "check" /\ wpc' # "check" /\ stop_ch # <<>> /\ Head(stop_ch)) =>
          (wire' = wire /\ wpc' = "done")]_vars

C8_Witness ==
    /\ cpc = "returned" /\ order = "kill" /\ wpc = "done" /\ NoDisconnectQueued
    /\ stop_ch = <<>>
    /\ Len(result) = 1
    /\ Len(wire) = 1 /\ Last(wire) # CloseFrame

\* C9: stop() or kill() called while no looping signal is on the channel sends
\* no termination order, does not wait for the worker and returns an empty
\* log, whatever the worker is doing.
C9_NotLoopingReturnsEmpty ==
    /\ [][(cpc = "holding" /\ cpc' # "holding" /\ looping_ch = 0) =>
             (cpc' = "leaking" /\ stop_ch' = stop_ch)]_vars
    /\ [][cpc = "leaking" => (cpc' \in {"leaking", "leaked"} /\ stop_ch' = stop_ch)]_vars
    /\ [](cpc = "leaking" => ENABLED leak_and_return)
    /\ [](cpc \in {"leaking", "leaked"} => stop_ch = <<>>)
    /\ [](cpc = "leaked" => result = <<>>)

C9_Witness ==
    cpc = "leaked" /\ order = "kill" /\ wpc = "accept" /\ conn = "none" /\ result = <<>>

\* C10: a queued frame that is no text and is taken from the queue is sent to
\* the client as the very frame that was queued.
C10_RawFrameSentUntouched ==
    [][(/\ responses # <<>>
        /\ Head(responses).type # "Text"
        /\ responses' = Tail(responses)) =>
          (wpc' = "panicked" \/ wire' = Append(wire, Head(responses)))]_vars

C10_Witness ==
    /\ Len(configured) = 2 /\ configured[2] = BinaryFrame(<<7>>)
    /\ Len(wire) = 2 /\ wire[2] = BinaryFrame(<<7>>)
    /\ responses = <<>>

\* The step reads a text frame that does not decode.
ReadsUndecodableText ==
    /\ wpc = "recv" /\ inbox # <<>> /\ inbox' = Tail(inbox)
    /\ Head(inbox).type = "Text" /\ ~Decoded(Head(inbox)).ok

\* C11: an inbound text that fails to decode is appended to the log as
\* Err(text) and answered with one unmarshal-error envelope, made with context
\* id 0 and carrying that text; the queue is unchanged and the worker goes on
\* to the termination check of the iteration.
C11_UndecodableAnswered ==
    [][ReadsUndecodableText =>
          LET text == Head(inbox).text
              reply == Last(wire').text
          IN  /\ requests' = Append(requests, ErrEntry(text))
              /\ Len(wire') = Len(wire) + 1
              /\ Last(wire').type = "Text"
              /\ reply.opcode = "unmarshalError" /\ reply.ctx = 0
              /\ reply.payload.message = <<text>>
              /\ responses' = responses
              /\ wpc' = "check"]_vars

C11_Witness ==
    /\ wpc = "check" /\ Len(responses) > 0 /\ responses = configured
    /\ requests = <<ErrEntry(JsonText(<<"opcode">>, "setup", 0, NoPayload))>>
    /\ wire = <<TextFrame(UnmarshalErrorText(JsonText(<<"opcode">>, "setup", 0, NoPayload)))>>

\* The front of the queue is a text that is protocol-shaped (it starts with the
\* opcode member) and has no conversational marker.
FrontIsProtocolShapedNotConversational ==
    /\ responses # <<>>
    /\ Head(responses).type = "Text"
    /\ starts_with_opcode(Head(responses).text)
    /\ ~contains_contextId(Head(responses).text)

\* C12: a conversational request that meets such a frame at the queue front
\* leaves the queue as it was before the dispatch and is answered with one
\* error envelope that carries the opcode and context id of the request, not
\* with the queued frame.
C12_BroadcastPutBack ==
    [][(RecordsConversation /\ FrontIsProtocolShapedNotConversational) =>
          LET request == Last(requests').body
              reply == Last(wire')
          IN  /\ responses' = responses
              /\ Len(wire') = Len(wire) + 1
              /\ reply # Head(responses)
              /\ reply.type = "Text"
              /\ HasKey(reply.text, "error")
              /\ reply.text.opcode = request.opcode
              /\ reply.text.ctx = request.ctx
              /\ wpc' = "check"]_vars

C12_Witness ==
    /\ wpc = "check" /\ responses = configured
    /\ Len(responses) = 2
    /\ responses[1] = TextFrame(new_marshal(BroadcastBody("newPassword")))
    /\ requests = <<OkEntry(ConversationBody("setup", 1))>>
    /\ wire = <<TextFrame(FireAndForgetErrorText("setup", 1))>>

\* C13: stop() or kill() that finds the looping signal takes it, puts its
\* order on the termination channel of a worker that is still running, and
\* returns only when the worker thread has exited; what it returns is the
\* whole request log, whose entries are the frames the client sent, in the
\* order they arrived.
C13_JoinReturnsWholeLog ==
    /\ [][(cpc = "holding" /\ cpc' # "holding" /\ looping_ch > 0) =>
             /\ cpc' = "joining"
             /\ looping_ch' = looping_ch - 1
             /\ ~WorkerExited => stop_ch' = Append(stop_ch, order' = "kill")]_vars
    /\ [][(cpc = "joining" /\ cpc' # "joining") =>
             (WorkerExited /\ cpc' = "returned" /\ result' = requests)]_vars
    /\ [](cpc = "returned" =>
             /\ WorkerExited
             /\ result = requests
             /\ transport = "open" =>
                   \A j \in 1..Len(result) :
                       result[j] = handle_incoming_raw(Incoming("Ok", sent[j])).entry)

C13_Witness ==
    /\ cpc = "returned" /\ order = "kill" /\ wpc = "done" /\ transport = "open"
    /\ Len(result) = 2 /\ result = requests
    /\ result[1].ok /\ ~result[2].ok

\* The step in which the worker reads a frame from the connection.
ReadsFrame == wpc = "recv" /\ wpc' # "recv" /\ inbox # <<>> /\ inbox' = Tail(inbox)

\* C14: in every loop iteration the read and the dispatch come before the
\* termination check.  The step that reads a frame appends its entry to the
\* log, sends the answer of its dispatch and leaves an order on the
\* termination channel where it is; an order is taken from the channel only at
\* the check that ends the iteration, after a trigger's walk has ended; so a
\* worker that leaves the loop on an order has logged every frame it read.
C14_DispatchPrecedesCheck ==
    /\ [][ReadsFrame =>
             LET entry == handle_incoming_raw(Incoming("Ok", Head(inbox))).entry
             IN  /\ requests' = Append(requests, entry)
                 /\ incoming_opt'
                 /\ stop_ch' = stop_ch
                 /\ wpc' \in {"check", "walk", "done", "panicked"}
                 /\ (wpc' = "check" /\ ~IsBroadcastTrigger(entry)) =>
                        wire' = wire \o dispatch(responses, entry).out]_vars
    /\ [][stop_ch' # stop_ch /\ Len(stop_ch') < Len(stop_ch) =>
             (wpc = "check" /\ walk.phase # "active")]_vars
    /\ [][(wpc = "check" /\ wpc' = "done" /\ transport = "open") =>
             Len(requests) = Len(sent) - Len(inbox)]_vars

C14_Witness ==
    /\ wpc = "done" /\ incoming_opt /\ order = "stop" /\ stop_ch = <<>>
    /\ transport = "open"
    /\ Len(requests) = 1 /\ Last(requests).ok
    /\ Len(configured) > 0
    /\ wire = <<configured[1], CloseFrame>>

\* The step reads a well-formed broadcast trigger whose signal position does
\* not fit the sender the server holds: a position without a sender, or a
\* sender without a position.
ReadsMisconfiguredTrigger ==
    /\ ReadsFrame
    /\ Head(inbox).type = "Text"
    /\ LET msg == Decoded(Head(inbox))
       IN  /\ msg.ok
           /\ IsBroadcastTrigger(OkEntry(msg.body))
           /\ UiBroadcastTrigger_fmb(msg.body).ok
           /\ (UiBroadcastTrigger_fmb(msg.body).position_to_send_the_signal_opt # {})
                  # signal_sender

\* C15: such a trigger ends the worker thread with a panic in the step that
\* reads it; no queued frame is sent or removed and no signal is delivered.
C15_MisconfiguredTriggerPanics ==
    [][ReadsMisconfiguredTrigger =>
          /\ wpc' = "panicked"
          /\ wire' = wire
          /\ responses' = responses
          /\ signals' = signals]_vars

C15_Witness ==
    /\ wpc = "panicked" /\ signal_rx /\ ~signal_sender
    /\ Len(requests) = 1 /\ IsBroadcastTrigger(requests[1])
    /\ requests[1].body.payload.pos = {}
    /\ wire = <<>> /\ signals = 0
    /\ responses = configured /\ Len(responses) > 0 /\ IsBroadcastFrame(responses[1])

\* C16: the stop handle is used at most once.  Once stop() or kill() has been
\* called the call made never changes, no further order is placed on the
\* termination channel and the looping channel is not polled again; an order
\* is placed only by that one call, so the channel never holds more than one.
C16_HandleConsumedOnce ==
    /\ [][order # "none" =>
             /\ order' = order
             /\ Len(stop_ch') <= Len(stop_ch)
             /\ looping_ch' >= looping_ch]_vars
    /\ [][Len(stop_ch') > Len(stop_ch) =>
             (order = "none" /\ order' # "none" /\ stop_ch = <<>> /\ Len(stop_ch') = 1)]_vars
    /\ [][looping_ch' < looping_ch => (order = "none" /\ order' # "none")]_vars
    /\ [](Len(stop_ch) <= 1)

C16_Witness ==
    /\ cpc = "joining" /\ order = "kill" /\ stop_ch = <<TRUE>> /\ looping_ch = 0
    /\ wpc = "recv" /\ Len(requests) = 1

\* C17: the request log changes only in a step of the worker's read, which
\* appends one entry while the worker holds the log's guard; the control side
\* reads the log only in the step that follows the join, when the worker
\* thread has exited and the guard is free, and a call that does not join
\* returns without reading it.
C17_LogReadAfterJoin ==
    /\ [][requests' # requests =>
             /\ wpc = "recv" /\ wpc' # "recv" /\ RequestsLockHeld
             /\ Len(requests') = Len(requests) + 1
             /\ SubSeq(requests', 1, Len(requests)) = requests
             /\ cpc' = cpc /\ result' = result]_vars
    /\ [][result' # result =>
             (cpc = "joining" /\ WorkerExited /\ ~RequestsLockHeld /\ result' = requests)]_vars
    /\ [][(cpc = "joining" /\ cpc' # "joining") => (WorkerExited /\ ~RequestsLockHeld)]_vars
    /\ [](RequestsLockHeld => result = <<>>)

C17_Witness ==
    /\ cpc = "leaked" /\ wpc = "check" /\ RequestsLockHeld
    /\ Len(requests) = 1 /\ result = <<>>

\* C18: a conversational request that finds the text "disconnect" at the queue
\* front removes it, sends nothing and ends the loop in the same step; the
\* termination channel is not read, so an order waiting on it stays there.
C18_DisconnectLeavesSilently ==
    [][(/\ RecordsConversation
        /\ responses # <<>>
        /\ Head(responses) = TextFrame(RawText("disconnect"))) =>
          /\ wire' = wire
          /\ responses' = Tail(responses)
          /\ wpc' = "done"
          /\ stop_ch' = stop_ch]_vars

C18_Witness ==
    /\ wpc = "done" /\ order = "stop" /\ stop_ch = <<FALSE>>
    /\ Len(configured) = 2 /\ configured[1] = TextFrame(RawText("disconnect"))
    /\ responses = Tail(configured)
    /\ Len(requests) = 1 /\ Last(requests).ok
    /\ wire = <<>>

\* C19: a conversational request that finds the text "close" at the queue
\* front removes it, sends one Close frame and goes on to the termination
\* check of the iteration; the worker stays in its loop, and the next
\* conversational request is read, recorded and answered with the frame that
\* was queued behind the directive.
C19_CloseKeepsLooping ==
    /\ [][(/\ RecordsConversation
            /\ responses # <<>>
            /\ Head(responses) = TextFrame(RawText("close"))) =>
              /\ wire' = Append(wire, CloseFrame)
              /\ responses' = Tail(responses)
              /\ wpc' = "check"]_vars
    /\ []((/\ Len(configured) >= 1 /\ configured[1] = TextFrame(RawText("close"))
            /\ Len(requests) >= 1 /\ IsConversationalFrame(sent[1])) =>
              /\ wire # <<>> /\ wire[1] = CloseFrame
              /\ (Len(requests) = 1 => wpc \in {"check", "recv"})
              /\ (/\ Len(requests) >= 2 /\ IsConversationalFrame(sent[2])
                  /\ Len(configured) >= 2 /\ VerbatimText(configured[2])) =>
                    /\ requests[2] = OkEntry(Decoded(sent[2]).body)
                    /\ Len(wire) >= 2 /\ wire[2] = configured[2])

C19_Witness ==
    /\ wpc = "check"
    /\ Len(configured) = 3 /\ configured[1] = TextFrame(RawText("close"))
    /\ VerbatimText(configured[2])
    /\ Len(requests) = 2 /\ requests[1].ok /\ requests[2].ok
    /\ wire = <<CloseFrame, configured[2]>>
    /\ responses = <<configured[3]>>

\* The queue q holds nothing a trigger may release: it is empty or its front
\* is a conversational frame.
NothingEligible(q) == q = <<>> \/ IsConversationalFrame(q[1])

\* C20: a broadcast trigger that arrives when the queue is empty or has a
\* conversational frame at its front sends no frame and leaves the queue as it
\* is, in the step that reads it and in every step of its walk.
C20_NothingEligibleNothingSent ==
    /\ [][(/\ ReadsFrame
            /\ IsBroadcastTrigger(handle_incoming_raw(Incoming("Ok", Head(inbox))).entry)
            /\ NothingEligible(responses)) =>
              (wire' = wire /\ responses' = responses)]_vars
    /\ []((walk.phase \in {"active", "finished"} /\ NothingEligible(walk.q0)) =>
              /\ Len(wire) = walk.wire0
              /\ responses = walk.q0
              /\ walk.already_sent = 0)

C20_Witness ==
    /\ wpc = "check" /\ walk.phase = "finished" /\ TriggerBatch = {1}
    /\ Len(walk.q0) = 2
    /\ IsConversationalFrame(walk.q0[1])
    /\ IsBroadcastFrame(walk.q0[2])
    /\ wire = <<>> /\ responses = walk.q0

\* C21: a step of the walk that sends a frame sends the frame it inspected at
\* the live position i - factor_of_position_reduction and removes that frame
\* from the queue; so every frame a trigger has sent decodes as a
\* fire-and-forget message.
C21_WalkSendsInspectedBroadcast ==
    /\ [][(wpc = "walk" /\ Len(wire') = Len(wire) + 1) =>
              LET live == walk.i - walk.factor_of_position_reduction + 1
              IN  /\ Last(wire') = responses[live]
                  /\ responses' = SubSeq(responses, 1, live - 1)
                                     \o SubSeq(responses, live + 1, Len(responses))]_vars
    /\ [](walk.phase \in {"active", "finished"} =>
              \A j \in 1..Len(WalkSent) : IsBroadcastFrame(WalkSent[j]))

\* A queued text that fails to decode.
IsUndecodableText(frame) == frame.type = "Text" /\ ~Decoded(frame).ok

\* The walk over q meets an undecodable text at position u: everything in
\* front of it is a broadcast.
MeetsUndecodableAt(q, u) ==
    /\ u \in 1..Len(q)
    /\ IsUndecodableText(q[u])
    /\ \A k \in 1..(u - 1) : IsBroadcastFrame(q[k])

\* C22: a queued item that fails to decode is neither removed nor sent by the
\* trigger whose walk meets it, and the walk does not go past it: only the
\* broadcasts in front of it are sent and removed, and no position behind it
\* is inspected.
C22_WalkHeldAtUndecodable ==
    walk.phase \in {"active", "finished"} =>
        \A u \in 1..Len(walk.q0) :
            MeetsUndecodableAt(walk.q0, u) =>
                /\ walk.already_sent <= u - 1
                /\ responses = SubSeq(walk.q0, walk.already_sent + 1, Len(walk.q0))
                /\ walk.i - walk.factor_of_position_reduction + walk.already_sent <= u - 1

\* C23: a trigger with an explicit batch size b, zero included, sends at most
\* b frames.
C23_BatchSizeBoundsSent ==
    (walk.phase \in {"active", "finished"} /\ TriggerBatch # {}) =>
        \A b \in TriggerBatch :
            /\ walk.already_sent <= b
            /\ Len(wire) - walk.wire0 <= b

\* The step reads a well-formed broadcast trigger that carries a signal
\* position.
ReadsTriggerWithPosition ==
    /\ ReadsFrame
    /\ Head(inbox).type = "Text"
    /\ LET msg == Decoded(Head(inbox))
       IN  /\ msg.ok
           /\ IsBroadcastTrigger(OkEntry(msg.body))
           /\ UiBroadcastTrigger_fmb(msg.body).ok
           /\ UiBroadcastTrigger_fmb(msg.body).position_to_send_the_signal_opt # {}

\* C24: when a sender was injected before start, no trigger that carries a
\* signal position makes the worker panic in the step that reads it, whether
\* it is the first trigger of the run or a later one.
C24_RegisteredSenderNeverAborts ==
    [][(ReadsTriggerWithPosition /\ signal_rx) => wpc' # "panicked"]_vars

\* C25: when the worker panicked inside its loop (the looping signal is on the
\* channel), stop() or kill() finds the signal and joins; the join of the
\* panicked thread can complete, and the call returns the whole request log,
\* every entry appended before the panic.
C25_PanickedWorkerLogReturned ==
    /\ [][(cpc = "holding" /\ cpc' # "holding" /\ wpc = "panicked" /\ looping_ch > 0) =>
             cpc' = "joining"]_vars
    /\ []((cpc = "joining" /\ wpc = "panicked") => ENABLED join_and_retrieve)
    /\ [][(cpc = "joining" /\ cpc' # "joining" /\ wpc = "panicked") =>
             (cpc' = "returned" /\ result' = requests)]_vars
    /\ []((cpc = "returned" /\ wpc = "panicked") => result = requests)

C25_Witness ==
    /\ cpc = "returned" /\ wpc = "panicked" /\ order = "stop" /\ transport = "open"
    /\ Len(requests) = 2 /\ result = requests
    /\ IsBroadcastTrigger(result[2])

\* C26: when the client does not offer the server's protocol the worker never
\* gets past the handshake: no looping signal, no loop, no request recorded,
\* no frame sent; stop() and kill() never join and return an empty log.
C26_ProtocolMismatchFailsHandshake ==
    conn = "bad" =>
        /\ wpc \in {"spawned", "accept", "panicked"}
        /\ looping_ch = 0
        /\ requests = <<>>
        /\ wire = <<>>
        /\ stop_ch = <<>>
        /\ cpc \notin {"joining", "returned"}
        /\ result = <<>>

C26_Witness ==
    /\ conn = "bad" /\ wpc = "panicked"
    /\ cpc = "leaked" /\ order = "stop" /\ result = <<>>

\* C27: an order on the termination channel is taken at the next termination
\* check, which ends the worker.  Once the order is there the worker never
\* comes back to a read after it has left one, so it reads at most one more
\* frame; the walk of a trigger is not cut short by the order.
C27_OrderObservedAtNextCheck ==
    /\ [][(stop_ch # <<>> /\ wpc # "recv") => wpc' # "recv"]_vars
    /\ [][(wpc = "check" /\ wpc' # "check" /\ stop_ch # <<>>) =>
             (wpc' \in {"done", "panicked"} /\ stop_ch' = Tail(stop_ch))]_vars
    /\ [][(wpc = "walk" /\ stop_ch # <<>>) =>
             (stop_ch' = stop_ch /\ wpc' \in {"walk", "check", "panicked"})]_vars

C27_Witness ==
    /\ wpc = "done" /\ order = "kill" /\ stop_ch = <<>> /\ transport = "open"
    /\ incoming_opt /\ Len(requests) = 1
    /\ inbox # <<>>
    /\ NoDisconnectQueued

\* C28: with the worker thread scheduled fairly, every call of stop() or
\* kill() returns, whatever the worker was doing when the call was made.
C28_StopEventuallyReturns ==
    (order # "none") ~> (cpc \in {"returned", "leaked"})

C28_Witness ==
    /\ cpc = "returned" /\ order = "stop" /\ wpc = "done"
    /\ configured = <<TextFrame(RawText("disconnect"))>> /\ responses = <<>>
    /\ stop_ch = <<>> /\ wire = <<>>

\* The log entry of a frame the worker read.
EntryOf(frame) == handle_incoming_raw(Incoming("Ok", frame)).entry

\* The log entry of a read that failed with an error other than "no data" and
\* "would block".
ReadErrorEntry == handle_incoming_raw(Incoming("IoError", CloseFrame)).entry

\* The step of the worker's read on an intact connection with nothing to read.
ReadsNothing ==
    wpc = "recv" /\ wpc' # "recv" /\ transport = "open" /\ inbox = <<>>

C30_ReadyBeforeHandleAndAccept ==
    /\ [][(cpc = "starting" /\ cpc' # "starting") =>
             (ready_ch > 0 /\ ready_ch' = ready_ch - 1 /\ cpc' = "holding")]_vars
    /\ [][ready_ch' > ready_ch => (wpc = "spawned" /\ wpc' = "accept")]_vars
    /\ [][(wpc # wpc' /\ wpc' \in {"upgraded", "panicked"} /\ wpc \notin {"recv", "walk", "check"})
             => wpc = "accept"]_vars
    /\ [](wpc \in {"none", "spawned"} =>
             /\ ready_ch = 0
             /\ cpc \in {"config", "aborted", "starting"}
             /\ requests = <<>> /\ wire = <<>> /\ looping_ch = 0)

C30_Witness ==
    /\ cpc = "holding" /\ wpc = "accept" /\ ready_ch = 0
    /\ conn = "ok" /\ requests = <<>> /\ wire = <<>> /\ order = "none"


\* The worker records a conversational request: the step of the loop that
\* runs handle_conversational_incoming_message.
AnswersConversation ==
    /\ wpc = "recv" /\ wpc' # "recv"
    /\ Len(requests') = Len(requests) + 1
    /\ Last(requests').ok
    /\ Last(requests').body.path = "Conversation"

\* A text the conversational dispatch sends as it is because it holds the
\* conversational marker.
SentAsConversational(frame) ==
    /\ frame.type = "Text"
    /\ frame.text \notin {RawText("disconnect"), RawText("close")}
    /\ contains_contextId(frame.text)

\* C31: the conversational dispatch and the broadcast flush classify queued
\* text frames consistently: a queued text that the flush decodes as
\* fire-and-forget-shaped is never sent verbatim as the reply to a
\* conversational request, and a text that the dispatch sends verbatim as
\* conversational is never released by a step of the walk.
C31_ClassifiersAgree ==
    [][/\ (AnswersConversation /\ responses # <<>> /\ IsBroadcastFrame(Head(responses)))
          => wire' # wire \o <<Head(responses)>>
       /\ (wpc = "walk" /\ Len(wire') = Len(wire) + 1)
          => ~SentAsConversational(Last(wire'))]_vars

\* q is what is left of p after frames were removed from its front.
IsSuffixOf(q, p) ==
    \E k \in 0..Len(p) : q = SubSeq(p, k + 1, Len(p))

\* What a step may put on the wire for the frame it removed from the front of
\* the queue: nothing, the frame itself, or the Close frame the "close"
\* directive stands for.
WireAfterRemoving(om) ==
    {wire, wire \o <<om>>}
        \cup (IF om = TextFrame(RawText("close")) THEN {wire \o <<CloseFrame>>} ELSE {})

\* C32: once the server is started, the live response queue is a suffix of the
\* configured queue; a step removes at most the front frame and adds none, and
\* the frame it removes is the only queued frame it puts on the wire, at the
\* end of the wire and once, so that queued frames reach the client in
\* configured order, each at most once.
C32_QueueIsSuffixOfConfigured ==
    /\ [](cpc # "config" => IsSuffixOf(responses, configured))
    /\ [][cpc # "config" =>
            \/ responses' = responses
            \/ /\ responses # <<>>
               /\ responses' = Tail(responses)
               /\ wire' \in WireAfterRemoving(Head(responses))]_vars

\* C32 witness: a conversational request took the first configured frame and
\* a broadcast trigger the second; both are on the wire in configured order.
C32_Witness ==
    /\ Len(configured) = 2
    /\ responses = <<>>
    /\ wire = configured
    /\ Len(requests) = 2
    /\ requests[1].ok /\ requests[1].body.path = "Conversation"
    /\ IsBroadcastTrigger(requests[2])
    /\ walk.phase = "finished" /\ walk.already_sent = 1

\* C33: at every iteration i of the walk, i is below the queue length taken
\* when the trigger arrived, the removal count does not exceed i, and the
\* inspected live index i minus that count is inside the current queue; no
\* iteration reads outside the queue.
C33_WalkIndexInsideQueue ==
    wpc = "walk" =>
        /\ walk.i >= 0 /\ walk.i < walk.starting_lenght
        /\ walk.starting_lenght = Len(walk.q0)
        /\ walk.factor_of_position_reduction <= walk.i
        /\ walk.i - walk.factor_of_position_reduction < Len(responses)
        /\ ~handle_broadcast_trigger_step(responses, walk).panic

\* C33 witness: the third iteration of a walk that removed two frames of a
\* queue of three inspects live index 0 of the one frame left.
C33_Witness ==
    /\ wpc = "walk"
    /\ walk.starting_lenght = 3
    /\ walk.i = 2
    /\ walk.factor_of_position_reduction = 2
    /\ Len(responses) = 1

\* A broadcast trigger has been read and recorded.
TriggerHandled == \E j \in 1..Len(requests) : IsBroadcastTrigger(requests[j])

\* C34: in a whole run the registered synchronization channel receives at
\* most one signal, and once a trigger has been handled the server holds no
\* sender any more.
C34_AtMostOneSignal ==
    /\ signals <= 1
    /\ TriggerHandled => ~signal_sender

\* C34 witness: two triggers were handled, the first one signalled, and the
\* second walk is over.
C34_Witness ==
    /\ signals = 1
    /\ Len(requests) = 2
    /\ IsBroadcastTrigger(requests[1])
    /\ IsBroadcastTrigger(requests[2])
    /\ wpc = "check"

\* The worker is in its main loop.
WorkerLooping == wpc \in {"recv", "walk", "check"}

\* C35: once stop() or kill() has found the looping signal absent and has
\* returned the empty log, no worker is in the main loop and none has
\* recorded or answered a message: a worker that completes the handshake
\* after that call exits before the loop.
C35_NoLoopAfterLeak ==
    (cpc = "leaked" /\ result = <<>>) =>
        /\ ~WorkerLooping
        /\ requests = <<>>
        /\ wire = <<>>

\* C36: the entry of an inbound message is in the request log before its
\* reply and before the directive it pops takes effect.  The step that reads
\* a frame appends its entry whatever the dispatch does; a step that ends the
\* loop on a directive, panics on a reply or puts a reply on the wire has
\* appended the entry of its message; a stop() or kill() called with a
\* non-empty log joins the worker, and what it returns is the whole log.
C36_LoggedBeforeReplyAndDirective ==
    /\ [][ReadsFrame => requests' = Append(requests, EntryOf(Head(inbox)))]_vars
    /\ [][(wpc = "recv" /\ (wpc' \in {"done", "panicked"} \/ Len(wire') > Len(wire)))
             => /\ Len(requests') = Len(requests) + 1
                /\ SubSeq(requests', 1, Len(requests)) = requests]_vars
    /\ [][(cpc = "holding" /\ cpc' # "holding" /\ requests # <<>>)
             => cpc' = "joining"]_vars
    /\ [](cpc = "returned" => result = requests)

\* C36 witness: the one request of the run popped the "disconnect" directive;
\* the loop ended without a reply and without a Close frame, and stop()
\* returned a log that holds the request.
C36_Witness ==
    /\ cpc = "returned" /\ order = "stop"
    /\ wpc = "done"
    /\ configured # <<>> /\ configured[1] = TextFrame(RawText("disconnect"))
    /\ wire = <<>>
    /\ Len(sent) = 1
    /\ result = <<EntryOf(sent[1])>>
    /\ result[1].ok /\ result[1].body.path = "Conversation"

\* The positions in id_calls of the calls of the function fn.
CallsOf(fn) == {k \in 1..Len(id_calls) : id_calls[k].fn = fn}

\* The id read by getfn was checked, and either it was not 0, or the set call
\* that followed returned 0 and the id read again after it was not 0.
IdDropped(getfn, setfn) ==
    \E k \in CallsOf(getfn) :
        /\ \A j \in CallsOf(getfn) : k <= j
        /\ \/ id_calls[k].result # 0
           \/ /\ Len(id_calls) >= k + 2
              /\ id_calls[k + 1].fn = setfn /\ id_calls[k + 1].result = 0
              /\ id_calls[k + 2].fn = getfn /\ id_calls[k + 2].result # 0

\* The id read by getfn was checked and was not 0.
IdNotRoot(getfn) ==
    \E k \in CallsOf(getfn) : id_calls[k].result # 0 /\ \A j \in CallsOf(getfn) : k <= j

\* C37: drop_privileges makes every call about the group id before any call
\* about the user id; it returns normally exactly when both ids were checked
\* and each one that was 0 at its check was set with result 0 and was not 0
\* when read again, and panics otherwise; an id that is not 0 at its check is
\* never set, so with neither id 0 no setgid or setuid call is made.
C37_DropPrivilegesOutcome ==
    dpc \in {"returned", "panicked"} =>
        /\ \A j \in CallsOf("getgid") \cup CallsOf("setgid") :
              \A k \in CallsOf("getuid") \cup CallsOf("setuid") : j < k
        /\ id_calls # <<>> /\ id_calls[1].fn = "getgid"
        /\ dpc = "returned" <=>
              (IdDropped("getgid", "setgid") /\ IdDropped("getuid", "setuid"))
        /\ IdNotRoot("getgid") => CallsOf("setgid") = {}
        /\ IdNotRoot("getuid") => CallsOf("setuid") = {}
        /\ Cardinality(CallsOf("setgid")) <= 1 /\ Cardinality(CallsOf("setuid")) <= 1

\* C37 witness: both ids were 0, both set calls returned 0, both ids were
\* read again and were not 0, and the call returned.
C37_Witness ==
    /\ dpc = "returned"
    /\ Len(id_calls) = 6
    /\ id_calls[1] = IdCall("getgid", {}, 0)
    /\ id_calls[2] = IdCall("setgid", {202}, 0)
    /\ id_calls[4] = IdCall("getuid", {}, 0)
    /\ id_calls[5] = IdCall("setuid", {101}, 0)
====
